---- MODULE Spec2Model ----
(***************************************************************************)
(* A model of sx126x-spi-buffers: the SPI command buffers of the Semtech   *)
(* SX126x (src/commands.rs), the register codecs (src/registers.rs) and    *)
(* the descriptor queue exercised in src/lib.rs.                           *)
(*                                                                         *)
(* A command value is a record [type, N, R, tx_buf, rx_buf]: N is the      *)
(* const generic capacity (0 for a command without one), R the register    *)
(* type parameter ("None" without one).  Arrays are sequences; Idx reads   *)
(* them with the source's zero-based indices.                              *)
(***************************************************************************)
EXTENDS Integers, Sequences, FiniteSets, TLC

VARIABLES
    cmd,          \* the command value (tx_buf, rx_buf and its type parameters)
    desc,         \* the SpiDescriptor most recently returned by descriptor()
    result,       \* the value most recently returned by a typed accessor
    reported,     \* every transfer_length descriptor() has reported so far
    transfers,    \* the number of SPI transfers made with the command
    data_length,  \* the effective data length last requested (no such field in src)
    bf,           \* a bitfield value in the hands of the caller
    reg,          \* a register codec round: input byte, decoded value, re-encoded byte
    call,         \* a constructor call a caller is about to make: its name and arguments
    places,       \* the places (statics, bindings) that hold command values
    queue,        \* the descriptors queued for the transport, first in first
    wire          \* the transfer the transport made last from the queue

vars ==
    <<cmd, desc, result, reported, transfers, data_length, bf, reg, call,
      places, queue, wire>>

(***************************************************************************)
(* Bounds of the model.                                                    *)
(***************************************************************************)
\* largest generic capacity N tried in the small-capacity specifications
MaxN == 7
\* highest position (besides the last) at which the modelled transport
\* stores a non-zero byte during a transfer
MaxPos == 9
\* number of SPI transfers followed for one command
MaxTransfers == 1

(***************************************************************************)
(* Integer types.                                                          *)
(***************************************************************************)
Byte == 0..255
\* `x as u8`
as_u8(x) == x % 256
\* `x as u16`
as_u16(x) == x % 65536
\* `x as i8` of an unsigned byte: two's complement reinterpretation
as_i8(x) == IF x % 256 >= 128 THEN (x % 256) - 256 ELSE x % 256
\* `b as u8` of a bool
bool_as_u8(b) == IF b THEN 1 ELSE 0
\* `x >> k`
shr(x, k) == x \div (2 ^ k)
\* i8 negation: -(-128) overflows (a panic when overflow checks are on,
\* a wrap to -128 when they are off)
neg_i8(x) == [value |-> IF x = -128 THEN -128 ELSE 0 - x, overflow |-> x = -128]
\* signed division, truncating toward zero (Rust `/` on i8)
div_i8(a, b) == IF a >= 0 THEN a \div b ELSE 0 - ((0 - a) \div b)

\* `[0; n]`
ZeroArray(n) == [i \in 1..n |-> 0]
\* buf[i] with the source's zero-based index
Idx(buf, i) == buf[i + 1]

(***************************************************************************)
(* registers.rs                                                            *)
(***************************************************************************)
ADDRESS ==
    [ LoraSyncWordMsb  |-> 1856,   \* 0x0740
      LoraSyncWordLsb  |-> 1857,   \* 0x0741
      RandomNumberGen0 |-> 2073,   \* 0x0819
      RxGain           |-> 2220,   \* 0x08AC
      RxGainRetention0 |-> 671,    \* 0x029F
      RxGainRetention1 |-> 672,    \* 0x02A0
      RxGainRetention2 |-> 673 ]   \* 0x02A1

Registers == DOMAIN ADDRESS

RxGainSetting == [Unknown |-> 0, PowerSaving |-> 148, Boosted |-> 150]

\* the two match arms with their results exchanged
RxGainSetting_from_exchanged(value) ==
    CASE value = 148 -> "Boosted"
      [] value = 150 -> "PowerSaving"
      [] OTHER -> "Unknown"

RxGainSetting_from(value) ==
    CASE value = 148 -> "PowerSaving"
      [] value = 150 -> "Boosted"
      [] OTHER       -> "Unknown"

\* A register value is [reg |-> its type, v |-> its field .0]: a byte for the
\* plain registers, an RxGainSetting member for RxGain.
RxGain_bits(r) == RxGainSetting[r.v]
RxGain_from_bits(b) == [reg |-> "RxGain", v |-> RxGainSetting_from(b)]

ByteRegister_bits(r) == r.v
ByteRegister_from_bits(R, b) == [reg |-> R, v |-> b]

\* Register::bits and Register::from_bits, dispatched on the implementing type
bits(r) == IF r.reg = "RxGain" THEN RxGain_bits(r) ELSE ByteRegister_bits(r)
from_bits(R, b) ==
    IF R = "RxGain" THEN RxGain_from_bits(b) ELSE ByteRegister_from_bits(R, b)

\* every value of the register type R
RegisterValues(R) ==
    IF R = "RxGain"
    THEN {[reg |-> R, v |-> m] : m \in DOMAIN RxGainSetting}
    ELSE {[reg |-> R, v |-> b] : b \in Byte}

(***************************************************************************)
(* Enumerations of commands.rs (#[repr(u8)]): member |-> discriminant.     *)
(***************************************************************************)
StdbyConfig == [StdbyRc |-> 0, StdbyXosc |-> 1]
FallbackMode == [Fs |-> 64, StdbyXosc |-> 48, StdbyRc |-> 32]
TcxoVoltage ==
    [V1_6 |-> 0, V1_7 |-> 1, V1_8 |-> 2, V2_2 |-> 3,
     V2_4 |-> 4, V2_7 |-> 5, V3_0 |-> 6, V3_3 |-> 7]
PacketType == [Gfsk |-> 0, Lora |-> 1, Reserved |-> 2, LrFhss |-> 3]
RampTime ==
    [Ramp10U |-> 0, Ramp20U |-> 1, Ramp40U |-> 2, Ramp80U |-> 3,
     Ramp200U |-> 4, Ramp800U |-> 5, Ramp1700U |-> 6, Ramp3400U |-> 7]
Sf == [Sf5 |-> 5, Sf6 |-> 6, Sf7 |-> 7, Sf8 |-> 8,
       Sf9 |-> 9, Sf10 |-> 10, Sf11 |-> 11, Sf12 |-> 12]
Bw == [Bw7_8 |-> 0, Bw10_42 |-> 8, Bw15_63 |-> 1, Bw20_83 |-> 9, Bw31_25 |-> 2,
       Bw41_67 |-> 10, Bw62_50 |-> 3, Bw125 |-> 4, Bw250 |-> 5, Bw500 |-> 6]
Cr == [Cr4_5 |-> 1, Cr4_6 |-> 2, Cr4_7 |-> 3, Cr4_8 |-> 4,
       Cr4_5Li |-> 5, Cr4_6Li |-> 6, Cr4_8Li |-> 7]
HeaderType == [VariableLength |-> 0, FixedLength |-> 1]
InvertIq == [Standard |-> 0, Inverted |-> 1]
CadSymbolNum ==
    [CadOn1Symb |-> 0, CadOn2Symb |-> 1, CadOn4Symb |-> 2,
     CadOn8Symb |-> 3, CadOn16Symb |-> 4]
CadExitMode == [CadOnly |-> 0, CadRx |-> 1]
ChipMode ==
    [Unused |-> 0, Reserved1 |-> 1, StbyRc |-> 2, StbyXosc |-> 3,
     Fs |-> 4, Rx |-> 5, Tx |-> 6, Reserved2 |-> 7]
CommandStatus ==
    [Reserved1 |-> 0, Reserved2 |-> 1, DataIsAvailableToHost |-> 2,
     CommandTimeout |-> 3, CommandProcessingError |-> 4,
     FailureToExecuteCommand |-> 5, CommandTxDone |-> 6, Reserved3 |-> 7]

\* core::mem::transmute of a byte into the enumeration E: the member with
\* that discriminant; a byte that is no discriminant of E is undefined
\* behaviour and shows as "InvalidDiscriminant"
transmute(E, code) ==
    IF \E m \in DOMAIN E : E[m] = code
    THEN CHOOSE m \in DOMAIN E : E[m] = code
    ELSE "InvalidDiscriminant"

\* a transmute of the byte as it is, without the mask
PacketType_from_unmasked(value) == transmute(PacketType, value)
PacketType_from(value) == transmute(PacketType, value % 4)
ChipMode_into_bits(m) == ChipMode[m]
ChipMode_from_bits(value) == transmute(ChipMode, value % 8)
CommandStatus_into_bits(m) == CommandStatus[m]
CommandStatus_from_bits(value) == transmute(CommandStatus, value % 8)

(***************************************************************************)
(* #[bitfield] structs (bitfield_struct).  A bitfield value is the tuple   *)
(* struct around its integer, [raw |-> bits].  A layout lists the members  *)
(* in declaration order with their #[bits(n)] widths; "__" is padding.     *)
(***************************************************************************)
SleepConfig ==
    [ int |-> 8, order |-> "Msb",
      fields |-> << [name |-> "__",         width |-> 5],
                    [name |-> "warm_start", width |-> 1],
                    [name |-> "__",         width |-> 2] >> ]

CalibrationSetting ==
    [ int |-> 8, order |-> "Lsb",
      fields |-> << [name |-> "rc64k",      width |-> 1],
                    [name |-> "rc13m",      width |-> 1],
                    [name |-> "pll",        width |-> 1],
                    [name |-> "adc_pulse",  width |-> 1],
                    [name |-> "adc_bulk_n", width |-> 1],
                    [name |-> "adc_bulk_p", width |-> 1],
                    [name |-> "image",      width |-> 1],
                    [name |-> "__",         width |-> 1] >> ]

Irq ==
    [ int |-> 16, order |-> "Lsb",
      fields |-> << [name |-> "tx_done",           width |-> 1],
                    [name |-> "rx_done",           width |-> 1],
                    [name |-> "preamble_detected", width |-> 1],
                    [name |-> "sync_word_valid",   width |-> 1],
                    [name |-> "header_valid",      width |-> 1],
                    [name |-> "header_err",        width |-> 1],
                    [name |-> "crc_err",           width |-> 1],
                    [name |-> "cad_done",          width |-> 1],
                    [name |-> "cad_detected",      width |-> 1],
                    [name |-> "timeout",           width |-> 1],
                    [name |-> "__",                width |-> 4],
                    [name |-> "lr_fhss_hop",       width |-> 1],
                    [name |-> "__",                width |-> 1] >> ]

Status ==
    [ int |-> 8, order |-> "Msb",
      fields |-> << [name |-> "__",             width |-> 1],
                    [name |-> "chip_mode",      width |-> 3],
                    [name |-> "command_status", width |-> 3],
                    [name |-> "__",             width |-> 1] >> ]

OpError ==
    [ int |-> 16, order |-> "Lsb",
      fields |-> << [name |-> "rc64k_calib_err", width |-> 1],
                    [name |-> "rc13m_calib_err", width |-> 1],
                    [name |-> "pll_calib_err",   width |-> 1],
                    [name |-> "adc_calib_err",   width |-> 1],
                    [name |-> "img_calib_err",   width |-> 1],
                    [name |-> "xosc_start_err",  width |-> 1],
                    [name |-> "pll_lock_err",    width |-> 1],
                    [name |-> "__",              width |-> 1],
                    [name |-> "pa_ramp_err",     width |-> 1],
                    [name |-> "__",              width |-> 7] >> ]

Bitfields ==
    [ SleepConfig |-> SleepConfig, CalibrationSetting |-> CalibrationSetting,
      Irq |-> Irq, Status |-> Status, OpError |-> OpError ]

\* the sum of the widths of the members declared before member k
RECURSIVE WidthBefore(_, _)
WidthBefore(L, k) ==
    IF k = 1 THEN 0 ELSE WidthBefore(L, k - 1) + L.fields[k - 1].width

\* offsets counted from bit 0 upward whatever the declared order
FieldOffset_from_bit0(L, k) == WidthBefore(L, k)

\* the bit offset of member k: members are packed in declaration order from
\* bit 0 upward (Lsb, the default) or from the top bit downward (Msb)
FieldOffset(L, k) ==
    IF L.order = "Lsb"
    THEN WidthBefore(L, k)
    ELSE L.int - WidthBefore(L, k) - L.fields[k].width

\* the named (non-padding) members of a layout and where they are declared
FieldNames(L) == {L.fields[k].name : k \in 1..Len(L.fields)} \ {"__"}
FieldIndex(L, name) == CHOOSE k \in 1..Len(L.fields) : L.fields[k].name = name

\* the bit positions no named member covers
ReservedBits(L) ==
    { p \in 0..(L.int - 1) :
        \E k \in 1..Len(L.fields) :
            /\ L.fields[k].name = "__"
            /\ p >= FieldOffset(L, k)
            /\ p < FieldOffset(L, k) + L.fields[k].width }

\* T::new(): every member at its default, zero
bitfield_new == [raw |-> 0]
\* T::from_bits(bits): the integer is taken as it is, padding bits included
bitfield_from_bits(b) == [raw |-> b]
\* T::into_bits(self)
bitfield_into_bits(v) == v.raw

\* #[derive(PartialEq, Eq)] on the generated struct Irq(u16), Status(u8),
\* OpError(u16): the integers are compared
bitfield_eq(a, b) == a.raw = b.raw

\* the getter of member `name`: its bit span, shifted down
bitfield_get(L, v, name) ==
    LET k == FieldIndex(L, name)
    IN  (v.raw \div (2 ^ FieldOffset(L, k))) % (2 ^ L.fields[k].width)

\* a with_<name> that never lowers the span: it keeps the old bits unless the
\* new value is larger
bitfield_with_uncleared(L, v, name, value) ==
    LET k   == FieldIndex(L, name)
        off == FieldOffset(L, k)
        w   == L.fields[k].width
        old == (v.raw \div (2 ^ off)) % (2 ^ w)
        new == value % (2 ^ w)
    IN  [raw |-> IF old >= new THEN v.raw ELSE v.raw - old * (2 ^ off) + new * (2 ^ off)]

\* with_<name>(self, value): the member's span is cleared and set to value
bitfield_with(L, v, name, value) ==
    LET k   == FieldIndex(L, name)
        off == FieldOffset(L, k)
        w   == L.fields[k].width
        old == (v.raw \div (2 ^ off)) % (2 ^ w)
    IN  [raw |-> v.raw - old * (2 ^ off) + (value % (2 ^ w)) * (2 ^ off)]

\* The typed members: chip_mode and command_status are enumerations
\* converted by their own into_bits/from_bits, every other member a bool.
FieldType(T, name) ==
    IF T = "Status" /\ name = "chip_mode" THEN "ChipMode"
    ELSE IF T = "Status" /\ name = "command_status" THEN "CommandStatus"
    ELSE "bool"

FieldValues(T, name) ==
    CASE FieldType(T, name) = "ChipMode"      -> DOMAIN ChipMode
      [] FieldType(T, name) = "CommandStatus" -> DOMAIN CommandStatus
      [] OTHER                                -> BOOLEAN

\* <name>(&self) with the member's type
field_get(T, v, name) ==
    LET x == bitfield_get(Bitfields[T], v, name)
    IN  CASE FieldType(T, name) = "ChipMode"      -> ChipMode_from_bits(x)
          [] FieldType(T, name) = "CommandStatus" -> CommandStatus_from_bits(x)
          [] OTHER -> x # 0

\* with_<name>(self, value) with the member's type
field_with(T, v, name, value) ==
    LET x == CASE FieldType(T, name) = "ChipMode"      -> ChipMode_into_bits(value)
               [] FieldType(T, name) = "CommandStatus" -> CommandStatus_into_bits(value)
               [] OTHER -> bool_as_u8(value)
    IN  bitfield_with(Bitfields[T], v, name, x)

\* every member of a bitfield value, read through its getter
Fields(T, v) == [name \in FieldNames(Bitfields[T]) |-> field_get(T, v, name)]

(***************************************************************************)
(* commands.rs: the commands.                                              *)
(***************************************************************************)
\* const OPCODE of every command
OPCODE ==
    [ SetSleep |-> 132,               \* 0x84
      SetStandby |-> 128,             \* 0x80
      SetFs |-> 193,                  \* 0xC1
      SetTx |-> 131,                  \* 0x83
      SetRx |-> 130,                  \* 0x82
      StopTimerOnPreamble |-> 159,    \* 0x9F
      SetRxDutyCycle |-> 148,         \* 0x94
      SetCad |-> 197,                 \* 0xC5
      SetTxContinuousWave |-> 209,    \* 0xD1
      SetTxInfinitePreamble |-> 210,  \* 0xD2
      SetRegulatorMode |-> 150,       \* 0x96
      Calibrate |-> 137,              \* 0x89
      CalibrateImage |-> 152,         \* 0x98
      SetPaConfig |-> 149,            \* 0x95
      SetRxTxFallbackMode |-> 147,    \* 0x93
      WriteRegister |-> 13,           \* 0x0D
      WriteRegisters |-> 13,          \* 0x0D
      ReadRegister |-> 29,            \* 0x1D
      ReadRegisters |-> 29,           \* 0x1D
      WriteBuffer |-> 14,             \* 0x0E
      ReadBuffer |-> 30,              \* 0x1E
      SetDioIrqParams |-> 8,          \* 0x08
      GetIrqStatus |-> 18,            \* 0x12
      ClearIrqStatus |-> 2,           \* 0x02
      SetDio2AsRfSwitchCtrl |-> 157,  \* 0x9D
      SetDio3AsTcxoCtrl |-> 151,      \* 0x97
      SetRfFrequency |-> 134,         \* 0x86
      SetPacketType |-> 138,          \* 0x8A
      GetPacketType |-> 17,           \* 0x11
      SetTxParams |-> 142,            \* 0x8E
      SetModulationParamsLora |-> 139,\* 0x8B
      SetPacketParams |-> 140,        \* 0x8C
      SetCadParams |-> 136,           \* 0x88
      SetBufferBaseAddress |-> 143,   \* 0x8F
      SetLoraSymbNumTimeout |-> 160,  \* 0xA0
      GetStatus |-> 192,              \* 0xC0
      GetRssiInst |-> 21,             \* 0x15
      GetRxBufferStatus |-> 19,       \* 0x13
      GetPacketStatusLora |-> 20,     \* 0x14
      GetStatsLora |-> 16,            \* 0x10
      ResetStats |-> 0,               \* 0x00
      GetDeviceErrors |-> 23,         \* 0x17
      ClearDeviceErrors |-> 7 ]       \* 0x07

CommandTypes == DOMAIN OPCODE
\* the commands with a const generic capacity N
GenericTypes == {"WriteRegisters", "ReadRegisters", "WriteBuffer", "ReadBuffer"}

\* a command without type parameters, and one with them
Fixed(type, tx, rx) ==
    [type |-> type, N |-> 0, R |-> "None", tx_buf |-> tx, rx_buf |-> rx]
Generic(type, N, R, tx, rx) ==
    [type |-> type, N |-> N, R |-> R, tx_buf |-> tx, rx_buf |-> rx]

\* the three bytes in the opposite order, least significant first
be24_little_endian(x) == << as_u8(x), as_u8(shr(x, 8)), as_u8(shr(x, 16)) >>

\* the three bytes (x >> 16) as u8, (x >> 8) as u8, x as u8
be24(x) == << as_u8(shr(x, 16)), as_u8(shr(x, 8)), as_u8(x) >>

\* a loop that stores the data from its last byte to its first
copy_loop_reversed(tx_buf, data, n, off) ==
    [ j \in 1..Len(tx_buf) |->
        IF j - 1 >= off /\ j - 1 - off < n THEN data[n + 1 - (j - off)] ELSE tx_buf[j] ]

\* `while i < n { tx_buf[i + off] = data[i]; i += 1 }`: the array after the loop
copy_loop(tx_buf, data, n, off) ==
    [ j \in 1..Len(tx_buf) |->
        IF j - 1 >= off /\ j - 1 - off < n THEN data[j - off] ELSE tx_buf[j] ]

SetSleep_new(warm_start) ==
    Fixed("SetSleep",
          << OPCODE.SetSleep,
             bitfield_into_bits(
                 field_with("SleepConfig", bitfield_new, "warm_start", warm_start)) >>,
          ZeroArray(2))

SetStandby_new(stdby_config) ==
    Fixed("SetStandby", << OPCODE.SetStandby, StdbyConfig[stdby_config] >>, ZeroArray(2))

SetFs_new == Fixed("SetFs", << OPCODE.SetFs >>, ZeroArray(1))

SetTx_new(timeout) ==
    Fixed("SetTx", << OPCODE.SetTx >> \o be24(timeout), ZeroArray(4))

SetRx_new(timeout) ==
    Fixed("SetRx", << OPCODE.SetRx >> \o be24(timeout), ZeroArray(4))

StopTimerOnPreamble_new(stop_on_preamble) ==
    Fixed("StopTimerOnPreamble",
          << OPCODE.StopTimerOnPreamble, bool_as_u8(stop_on_preamble) >>, ZeroArray(2))

SetRxDutyCycle_new(rx_period, sleep_period) ==
    Fixed("SetRxDutyCycle",
          << OPCODE.SetRxDutyCycle >> \o be24(rx_period) \o be24(sleep_period),
          ZeroArray(7))

SetCad_new == Fixed("SetCad", << OPCODE.SetCad >>, ZeroArray(1))

SetTxContinuousWave_new ==
    Fixed("SetTxContinuousWave", << OPCODE.SetTxContinuousWave >>, ZeroArray(1))

SetTxInfinitePreamble_new ==
    Fixed("SetTxInfinitePreamble", << OPCODE.SetTxInfinitePreamble >>, ZeroArray(1))

SetRegulatorMode_new(dc_dc_mode) ==
    Fixed("SetRegulatorMode",
          << OPCODE.SetRegulatorMode, bool_as_u8(dc_dc_mode) >>, ZeroArray(2))

Calibrate_new(calib_param) ==
    Fixed("Calibrate",
          << OPCODE.Calibrate, bitfield_into_bits(calib_param) >>, ZeroArray(2))

CalibrateImage_new(freq1, freq2) ==
    Fixed("CalibrateImage", << OPCODE.CalibrateImage, freq1, freq2 >>, ZeroArray(3))

SetPaConfig_new(pa_duty_cycle, hp_max, device_sel) ==
    Fixed("SetPaConfig",
          << OPCODE.SetPaConfig, pa_duty_cycle, hp_max, device_sel, 1 >>, ZeroArray(5))

SetRxTxFallbackMode_new(fallback_mode) ==
    Fixed("SetRxTxFallbackMode",
          << OPCODE.SetRxTxFallbackMode, FallbackMode[fallback_mode] >>, ZeroArray(2))

\* the two address bytes in the opposite order, low byte first
WriteRegister_new_low_first(register) ==
    Fixed("WriteRegister",
          << OPCODE.WriteRegister,
             as_u8(ADDRESS[register.reg]),
             as_u8(shr(ADDRESS[register.reg], 8)),
             bits(register) >>,
          ZeroArray(4))

WriteRegister_new(register) ==
    Fixed("WriteRegister",
          << OPCODE.WriteRegister,
             as_u8(shr(ADDRESS[register.reg], 8)),
             as_u8(ADDRESS[register.reg]),
             bits(register) >>,
          ZeroArray(4))

\* WriteRegisters::<N>::new::<R>(data), data: [u8; N - 3]
WriteRegisters_new(N, R, data) ==
    LET t0 == ZeroArray(N)
        t1 == [t0 EXCEPT ![1] = OPCODE.WriteRegisters]
        t2 == [t1 EXCEPT ![2] = as_u8(shr(ADDRESS[R], 8))]
        t3 == [t2 EXCEPT ![3] = as_u8(ADDRESS[R])]
    IN  Generic("WriteRegisters", N, "None", copy_loop(t3, data, N - 3, 3), ZeroArray(N))

\* a read with one NOP byte after the address
ReadRegister_new_one_nop(R) ==
    Generic("ReadRegister", 0, R,
            << OPCODE.ReadRegister,
               as_u8(shr(ADDRESS[R], 8)),
               as_u8(ADDRESS[R]),
               0 >>,
            ZeroArray(5))

\* ReadRegister::<R>::new()
ReadRegister_new(R) ==
    Generic("ReadRegister", 0, R,
            << OPCODE.ReadRegister,
               as_u8(shr(ADDRESS[R], 8)),
               as_u8(ADDRESS[R]),
               0, 0 >>,
            ZeroArray(5))

\* buffers one byte shorter than the capacity: the header and N - 4 bytes
ReadRegisters_new_short(N, R) ==
    LET t0 == ZeroArray(N - 1)
        t1 == [t0 EXCEPT ![1] = OPCODE.ReadRegisters]
        t2 == [t1 EXCEPT ![2] = as_u8(shr(ADDRESS[R], 8))]
        t3 == [t2 EXCEPT ![3] = as_u8(ADDRESS[R])]
    IN  Generic("ReadRegisters", N, "None", t3, ZeroArray(N - 1))

\* ReadRegisters::<N>::new::<R>()
ReadRegisters_new(N, R) ==
    LET t0 == ZeroArray(N)
        t1 == [t0 EXCEPT ![1] = OPCODE.ReadRegisters]
        t2 == [t1 EXCEPT ![2] = as_u8(shr(ADDRESS[R], 8))]
        t3 == [t2 EXCEPT ![3] = as_u8(ADDRESS[R])]
    IN  Generic("ReadRegisters", N, "None", t3, ZeroArray(N))

\* a loop that starts storing at tx_buf[1], over the offset
WriteBuffer_new_over_offset(N, offset, data) ==
    LET t0 == ZeroArray(N)
        t1 == [t0 EXCEPT ![1] = OPCODE.WriteBuffer]
        t2 == [t1 EXCEPT ![2] = offset]
    IN  Generic("WriteBuffer", N, "None", copy_loop(t2, data, N - 2, 1), ZeroArray(N))

\* WriteBuffer::<N>::new(offset, data), data: [u8; N - 2]
WriteBuffer_new(N, offset, data) ==
    LET t0 == ZeroArray(N)
        t1 == [t0 EXCEPT ![1] = OPCODE.WriteBuffer]
        t2 == [t1 EXCEPT ![2] = offset]
    IN  Generic("WriteBuffer", N, "None", copy_loop(t2, data, N - 2, 2), ZeroArray(N))

\* ReadBuffer::<N>::new(offset)
ReadBuffer_new(N, offset) ==
    LET t0 == ZeroArray(N)
        t1 == [t0 EXCEPT ![1] = OPCODE.ReadBuffer]
        t2 == [t1 EXCEPT ![2] = offset]
    IN  Generic("ReadBuffer", N, "None", t2, ZeroArray(N))

\* the two bytes (x >> 8) as u8, x as u8 of a bitfield's integer
irq_bytes(mask) ==
    << as_u8(shr(bitfield_into_bits(mask), 8)), as_u8(bitfield_into_bits(mask)) >>

SetDioIrqParams_new(irq_mask, dio1_mask, dio2_mask, dio3_mask) ==
    Fixed("SetDioIrqParams",
          << OPCODE.SetDioIrqParams >> \o irq_bytes(irq_mask) \o irq_bytes(dio1_mask)
              \o irq_bytes(dio2_mask) \o irq_bytes(dio3_mask),
          ZeroArray(9))

GetIrqStatus_new == Fixed("GetIrqStatus", << OPCODE.GetIrqStatus, 0, 0, 0 >>, ZeroArray(4))

ClearIrqStatus_new(clear_irq_param) ==
    Fixed("ClearIrqStatus",
          << OPCODE.ClearIrqStatus >> \o irq_bytes(clear_irq_param), ZeroArray(3))

SetDio2AsRfSwitchCtrl_new(enable) ==
    Fixed("SetDio2AsRfSwitchCtrl",
          << OPCODE.SetDio2AsRfSwitchCtrl, bool_as_u8(enable) >>, ZeroArray(2))

SetDio3AsTcxoCtrl_new(tcxo_voltage, delay) ==
    Fixed("SetDio3AsTcxoCtrl",
          << OPCODE.SetDio3AsTcxoCtrl, TcxoVoltage[tcxo_voltage] >> \o be24(delay),
          ZeroArray(5))

SetRfFrequency_new(rf_freq) ==
    Fixed("SetRfFrequency",
          << OPCODE.SetRfFrequency, as_u8(shr(rf_freq, 24)) >> \o be24(rf_freq),
          ZeroArray(5))

SetPacketType_new(packet_type) ==
    Fixed("SetPacketType",
          << OPCODE.SetPacketType, PacketType[packet_type] >>, ZeroArray(2))

\* a receive buffer that starts with a packet type in it
GetPacketType_new_unzeroed ==
    Fixed("GetPacketType", << OPCODE.GetPacketType, 0, 0 >>, << 0, 0, 1 >>)
GetPacketType_new == Fixed("GetPacketType", << OPCODE.GetPacketType, 0, 0 >>, ZeroArray(3))

SetTxParams_new(power, ramp_time) ==
    Fixed("SetTxParams", << OPCODE.SetTxParams, power, RampTime[ramp_time] >>, ZeroArray(3))

SetModulationParamsLora_new(sf, bw, cr, low_data_rate_optimize) ==
    Fixed("SetModulationParamsLora",
          << OPCODE.SetModulationParamsLora, Sf[sf], Bw[bw], Cr[cr],
             bool_as_u8(low_data_rate_optimize) >>,
          ZeroArray(5))

SetPacketParams_new(preamble_length, header_type, payload_length, crc_type, invert_iq) ==
    Fixed("SetPacketParams",
          << OPCODE.SetPacketParams,
             as_u8(shr(preamble_length, 8)), as_u8(preamble_length),
             HeaderType[header_type], payload_length,
             bool_as_u8(crc_type), InvertIq[invert_iq] >>,
          ZeroArray(7))

SetCadParams_new(symbol_num, det_peak, det_min, exit_mode, timeout) ==
    Fixed("SetCadParams",
          << OPCODE.SetCadParams, CadSymbolNum[symbol_num], det_peak, det_min,
             CadExitMode[exit_mode] >> \o be24(timeout),
          ZeroArray(8))

SetBufferBaseAddress_new(tx_base_address, rx_base_address) ==
    Fixed("SetBufferBaseAddress",
          << OPCODE.SetBufferBaseAddress, tx_base_address, rx_base_address >>,
          ZeroArray(3))

SetLoraSymbNumTimeout_new(symb_num) ==
    Fixed("SetLoraSymbNumTimeout",
          << OPCODE.SetLoraSymbNumTimeout, symb_num >>, ZeroArray(2))

GetStatus_new == Fixed("GetStatus", << OPCODE.GetStatus, 0 >>, ZeroArray(2))

GetRssiInst_new == Fixed("GetRssiInst", << OPCODE.GetRssiInst, 0, 0 >>, ZeroArray(3))

GetRxBufferStatus_new ==
    Fixed("GetRxBufferStatus", << OPCODE.GetRxBufferStatus, 0, 0, 0 >>, ZeroArray(4))

GetPacketStatusLora_new ==
    Fixed("GetPacketStatusLora", << OPCODE.GetPacketStatusLora, 0, 0, 0, 0 >>, ZeroArray(5))

GetStatsLora_new ==
    Fixed("GetStatsLora", << OPCODE.GetStatsLora, 0, 0, 0, 0, 0, 0, 0 >>, ZeroArray(8))

\* a reset that starts with the opcode of GetStatsLora
ResetStats_new_with_stats_opcode ==
    Fixed("ResetStats", << OPCODE.GetStatsLora, 0, 0, 0, 0, 0, 0 >>, ZeroArray(7))

ResetStats_new ==
    Fixed("ResetStats", << OPCODE.ResetStats, 0, 0, 0, 0, 0, 0 >>, ZeroArray(7))

GetDeviceErrors_new ==
    Fixed("GetDeviceErrors", << OPCODE.GetDeviceErrors, 0, 0, 0 >>, ZeroArray(4))

ClearDeviceErrors_new ==
    Fixed("ClearDeviceErrors", << OPCODE.ClearDeviceErrors, 0, 0 >>, ZeroArray(3))

(***************************************************************************)
(* descriptor()                                                            *)
(***************************************************************************)
\* a table that takes its length from the transmit array, ResetStats
\* carrying the literal of GetStatsLora
fixed_transfer_length_of_stats(c) ==
    IF c.type = "ResetStats" THEN 8 ELSE Len(c.tx_buf)

\* the literal transfer_length each descriptor() of a command without a
\* capacity writes into its SpiDescriptor
fixed_transfer_length(c) ==
    CASE c.type = "SetSleep" -> 2
      [] c.type = "SetStandby" -> 2
      [] c.type = "SetFs" -> 1
      [] c.type = "SetTx" -> 4
      [] c.type = "SetRx" -> 4
      [] c.type = "StopTimerOnPreamble" -> 2
      [] c.type = "SetRxDutyCycle" -> 7
      [] c.type = "SetCad" -> 1
      [] c.type = "SetTxContinuousWave" -> 1
      [] c.type = "SetTxInfinitePreamble" -> 1
      [] c.type = "SetRegulatorMode" -> 2
      [] c.type = "Calibrate" -> 2
      [] c.type = "CalibrateImage" -> 3
      [] c.type = "SetPaConfig" -> 5
      [] c.type = "SetRxTxFallbackMode" -> 2
      [] c.type = "WriteRegister" -> 4
      [] c.type = "ReadRegister" -> 5
      [] c.type = "SetDioIrqParams" -> 9
      [] c.type = "GetIrqStatus" -> 4
      [] c.type = "ClearIrqStatus" -> 3
      [] c.type = "SetDio2AsRfSwitchCtrl" -> 2
      [] c.type = "SetDio3AsTcxoCtrl" -> 5
      [] c.type = "SetRfFrequency" -> 5
      [] c.type = "SetPacketType" -> 2
      [] c.type = "GetPacketType" -> 3
      [] c.type = "SetTxParams" -> 3
      [] c.type = "SetModulationParamsLora" -> 5
      [] c.type = "SetPacketParams" -> 7
      [] c.type = "SetCadParams" -> 8
      [] c.type = "SetBufferBaseAddress" -> 3
      [] c.type = "SetLoraSymbNumTimeout" -> 2
      [] c.type = "GetStatus" -> 2
      [] c.type = "GetRssiInst" -> 3
      [] c.type = "GetRxBufferStatus" -> 4
      [] c.type = "GetPacketStatusLora" -> 5
      [] c.type = "GetStatsLora" -> 8
      [] c.type = "ResetStats" -> 7
      [] c.type = "GetDeviceErrors" -> 4
      [] c.type = "ClearDeviceErrors" -> 3

\* `(N - 2) as u16`: the data length in place of the capacity
generic_transfer_length_of_data(c) == as_u16(c.N - 2)
\* `(N - 1) as u16`: the last index in place of the capacity
generic_transfer_length_of_index(c) == as_u16(c.N - 1)

\* `transfer_length: N as u16` of the four commands with a capacity
generic_transfer_length(c) == as_u16(c.N)

transfer_length(c) ==
    IF c.type \in GenericTypes THEN generic_transfer_length(c)
    ELSE fixed_transfer_length(c)

\* a descriptor whose two pointers are both taken from tx_buf
descriptor_of_tx_buf(c) ==
    [ tx_buf_ptr |-> "tx_buf", rx_buf_ptr |-> "tx_buf",
      transfer_length |-> transfer_length(c) ]

\* SpiDescriptor { tx_buf_ptr: self.tx_buf.as_ptr(), rx_buf_ptr:
\* self.rx_buf.as_ptr(), transfer_length }: a pointer is the field of the
\* command it designates
descriptor(c) ==
    [ tx_buf_ptr |-> "tx_buf", rx_buf_ptr |-> "rx_buf",
      transfer_length |-> transfer_length(c) ]

(***************************************************************************)
(* The typed accessors.                                                    *)
(***************************************************************************)
\* (hi as u16) << 8 | (lo as u16): the low byte of the shifted operand is
\* zero, so the bitwise or is a sum
be16_low_first(hi, lo) == as_u16(lo * 256) + hi
be16(hi, lo) == as_u16(hi * 256) + lo

\* the register decoded from the byte before the last, rx_buf[3]
ReadRegister_register_of_rx_buf3(c) == from_bits(c.R, Idx(c.rx_buf, 3))
ReadRegister_register(c) == from_bits(c.R, Idx(c.rx_buf, 4))

\* the slice taken one byte early, &self.rx_buf[2..N]
ReadBuffer_data_from_status(c) ==
    IF 3 > c.N THEN << >> ELSE SubSeq(c.rx_buf, 2 + 1, c.N)

\* &self.rx_buf[3..N]: the range panics when 3 > N
ReadBuffer_data_panics(c) == 3 > c.N
ReadBuffer_data(c) ==
    IF ReadBuffer_data_panics(c) THEN << >> ELSE SubSeq(c.rx_buf, 3 + 1, c.N)

GetIrqStatus_irq_status(c) ==
    bitfield_from_bits(be16(Idx(c.rx_buf, 2), Idx(c.rx_buf, 3)))

GetPacketType_packet_type(c) == PacketType_from(Idx(c.rx_buf, 2))

\* the status taken from the first byte of the reply
GetStatus_status_of_rx_buf0(c) == bitfield_from_bits(Idx(c.rx_buf, 0))
GetStatus_status(c) == bitfield_from_bits(Idx(c.rx_buf, 1))

GetRssiInst_rssi_inst(c) == neg_i8(as_i8(Idx(c.rx_buf, 2) \div 2))

GetRxBufferStatus_payload_length_rx(c) == Idx(c.rx_buf, 2)
GetRxBufferStatus_rx_start_buffer_pointer(c) == Idx(c.rx_buf, 3)

\* `-((self.rx_buf[2] as i8) / 2)`: the cast made before the division
GetPacketStatusLora_rssi_pkt_cast_first(c) ==
    neg_i8(div_i8(as_i8(Idx(c.rx_buf, 2)), 2))
GetPacketStatusLora_rssi_pkt(c) == neg_i8(as_i8(Idx(c.rx_buf, 2) \div 2))
\* a division that rounds toward minus infinity
GetPacketStatusLora_snr_pkt_floored(c) == as_i8(Idx(c.rx_buf, 3)) \div 4
GetPacketStatusLora_snr_pkt(c) == div_i8(as_i8(Idx(c.rx_buf, 3)), 4)
GetPacketStatusLora_signal_rssi_pkt(c) == neg_i8(as_i8(Idx(c.rx_buf, 4) \div 2))

GetStatsLora_nb_pkt_received(c) == be16(Idx(c.rx_buf, 2), Idx(c.rx_buf, 3))
GetStatsLora_nb_pkt_crc_error(c) == be16(Idx(c.rx_buf, 4), Idx(c.rx_buf, 5))
GetStatsLora_nb_pkt_header_err(c) == be16(Idx(c.rx_buf, 6), Idx(c.rx_buf, 7))

GetDeviceErrors_op_error(c) ==
    bitfield_from_bits(be16(Idx(c.rx_buf, 2), Idx(c.rx_buf, 3)))

(***************************************************************************)
(* The states after construction.                                          *)
(***************************************************************************)
\* constructor arguments tried
U8Samples == {0, 7, 255}
U16Samples == {0, 8, 65535}
\* (u32 arguments are tried up to 2^31 - 1, the largest integer of the checker)
U32Samples == {0, 120, 6862921, 455081984, 2147483647}
Offsets == {0, 16, 255}
DataBytes == {0, 171}
\* bytes the transport stores into rx_buf in the small-capacity specifications
RxBytes == {100, 255}

\* the arrays [u8; n] passed as data: every array over DataBytes, and the
\* first n bytes of the payload of src/lib.rs
DataArrays(n) ==
    [1..n -> DataBytes]
        \cup {[i \in 1..n |-> << 2, 4, 7, 9, 3, 1, 6, 5 >>[((i - 1) % 8) + 1]]}

\* register values passed to WriteRegister::new
RegisterSamples(R) ==
    IF R = "RxGain" THEN RegisterValues(R)
    ELSE {from_bits(R, b) : b \in U8Samples}

\* Irq and CalibrationSetting values passed to the constructors taking them
IrqSamples ==
    { bitfield_new,
      field_with("Irq", bitfield_new, "tx_done", TRUE),
      field_with("Irq", field_with("Irq", bitfield_new, "rx_done", TRUE), "timeout", TRUE),
      bitfield_from_bits(65535) }
CalibrationSamples ==
    { bitfield_new,
      field_with("CalibrationSetting", bitfield_new, "image", TRUE),
      field_with("CalibrationSetting", bitfield_new, "rc64k", TRUE),
      bitfield_from_bits(255) }

SetCommands ==
    {SetSleep_new(w) : w \in BOOLEAN}
    \cup {SetStandby_new(c) : c \in DOMAIN StdbyConfig}
    \cup {SetFs_new, SetCad_new, SetTxContinuousWave_new, SetTxInfinitePreamble_new}
    \cup {SetTx_new(t) : t \in U32Samples}
    \cup {SetRx_new(t) : t \in U32Samples}
    \cup {StopTimerOnPreamble_new(b) : b \in BOOLEAN}
    \cup {SetRxDutyCycle_new(r, sl) : r \in U32Samples, sl \in U32Samples}
    \cup {SetRegulatorMode_new(b) : b \in BOOLEAN}
    \cup {Calibrate_new(c) : c \in CalibrationSamples}
    \cup {CalibrateImage_new(f1, f2) : f1 \in U8Samples, f2 \in U8Samples}
    \cup {SetPaConfig_new(d, h, sel) : d \in U8Samples, h \in U8Samples, sel \in {0, 1}}
    \cup {SetRxTxFallbackMode_new(m) : m \in DOMAIN FallbackMode}
    \cup {SetDioIrqParams_new(a, b, c, d) :
              a \in IrqSamples, b \in IrqSamples, c \in {bitfield_new}, d \in IrqSamples}
    \cup {ClearIrqStatus_new(a) : a \in IrqSamples}
    \cup {SetDio2AsRfSwitchCtrl_new(b) : b \in BOOLEAN}
    \cup {SetDio3AsTcxoCtrl_new(v, d) : v \in DOMAIN TcxoVoltage, d \in {0, 6862921}}
    \cup {SetRfFrequency_new(f) : f \in U32Samples}
    \cup {SetPacketType_new(t) : t \in DOMAIN PacketType}
    \cup {SetTxParams_new(pw, r) : pw \in U8Samples, r \in DOMAIN RampTime}
    \cup {SetModulationParamsLora_new(sf, "Bw500", "Cr4_5", ld) :
              sf \in DOMAIN Sf, ld \in BOOLEAN}
    \cup {SetModulationParamsLora_new("Sf7", bw, cr, FALSE) :
              bw \in DOMAIN Bw, cr \in DOMAIN Cr}
    \cup {SetPacketParams_new(pl, h, len, crc, iq) :
              pl \in U16Samples, h \in DOMAIN HeaderType, len \in {0, 255},
              crc \in BOOLEAN, iq \in DOMAIN InvertIq}
    \cup {SetCadParams_new(n, 22, 10, e, t) :
              n \in DOMAIN CadSymbolNum, e \in DOMAIN CadExitMode, t \in U32Samples}
    \cup {SetBufferBaseAddress_new(t, r) : t \in U8Samples, r \in U8Samples}
    \cup {SetLoraSymbNumTimeout_new(n) : n \in U8Samples}
    \cup {ResetStats_new, ClearDeviceErrors_new}

RegisterCommands ==
    UNION {{WriteRegister_new(r) : r \in RegisterSamples(R)} : R \in Registers}
    \cup {ReadRegister_new(R) : R \in Registers}

\* the commands whose reply carries a value read by a typed accessor
QueryCommands ==
    {GetIrqStatus_new, GetPacketType_new, GetStatus_new, GetRssiInst_new,
     GetRxBufferStatus_new, GetPacketStatusLora_new, GetStatsLora_new,
     GetDeviceErrors_new}

\* the commands with a capacity N, for the capacities in Ns: data is
\* [u8; N - 3] (registers) or [u8; N - 2] (buffer), so N is no less than that
RegistersCommands(Ns) ==
    UNION {{WriteRegisters_new(N, R, d) : R \in Registers, d \in DataArrays(N - 3)} :
               N \in {n \in Ns : n >= 3}}
    \cup {ReadRegisters_new(N, R) : N \in {n \in Ns : n >= 3}, R \in Registers}
BufferCommands(Ns) ==
    UNION {{WriteBuffer_new(N, o, d) : o \in Offsets, d \in DataArrays(N - 2)} :
               N \in {n \in Ns : n >= 2}}
    \cup {ReadBuffer_new(N, o) : N \in {n \in Ns : n >= 2}, o \in Offsets}

Commands ==
    SetCommands \cup RegisterCommands \cup QueryCommands
        \cup RegistersCommands(2..MaxN) \cup BufferCommands(2..MaxN)

(***************************************************************************)
(* The state machine: a caller constructs a command, takes its descriptor, *)
(* hands it to the SPI transport, which transfers transfer_length bytes    *)
(* through the two pointers, and reads the reply with the typed accessors. *)
(***************************************************************************)
NoCommand == [type |-> "None", N |-> 0, R |-> "None", tx_buf |-> << >>, rx_buf |-> << >>]
NoDescriptor == [tx_buf_ptr |-> "null", rx_buf_ptr |-> "null", transfer_length |-> 0]
NoResult == [op |-> "none", val |-> 0, panic |-> FALSE]
NoBitfield == [type |-> "None", v |-> bitfield_new, fields |-> << >>]
NoRegister == [R |-> "None", first |-> "none", steps |-> << >>,
               b0 |-> 0, b |-> 0, r0 |-> 0, r |-> 0]
NoCall == [fn |-> "none", args |-> << >>]
NoPlaces == << >>
NoWire == [made |-> FALSE]
\* no command is held in a place and nothing is queued
NoQueue == places = NoPlaces /\ queue = << >> /\ wire = NoWire

Returned(op, val) == [op |-> op, val |-> val, panic |-> FALSE]
Panicked(op) == [op |-> op, val |-> 0, panic |-> TRUE]

\* the buffer a descriptor pointer designates
Pointee(c, ptr) == IF ptr = "tx_buf" THEN c.tx_buf ELSE c.rx_buf

\* the positions of a frame of L bytes at which a non-zero byte is tried
Positions(L) == {i \in 1..L : i <= MaxPos \/ i = L}

\* A frame of L bytes on the wire is held as the function from its non-zero
\* positions to their bytes; FrameByte reads byte i of it.
FrameByte(frame, i) == IF i \in DOMAIN frame THEN frame[i] ELSE 0

\* the frames of L bytes the transport is tried with: all zero, one byte of B
\* at one position, two bytes of RxBytes at two neighbouring positions
Frames(L, B) ==
    {<< >>}
    \cup {[p \in {i} |-> b] : i \in Positions(L), b \in B \ {0}}
    \cup {[p \in {i, i + 1} |-> IF p = i THEN b1 ELSE b2] :
              i \in Positions(L) \ {L}, b1 \in RxBytes, b2 \in RxBytes}

\* the buffer after the transport stored the L bytes of `frame` at its start
Stored(buf, frame, L) ==
    [i \in 1..L |-> FrameByte(frame, i)] \o SubSeq(buf, L + 1, Len(buf))

\* one SPI transfer of a frame that fits the buffer rx_buf_ptr designates
Received(c, d, frame) ==
    IF d.rx_buf_ptr = "tx_buf"
    THEN [c EXCEPT !.tx_buf = Stored(c.tx_buf, frame, d.transfer_length)]
    ELSE [c EXCEPT !.rx_buf = Stored(c.rx_buf, frame, d.transfer_length)]

\* descriptor(&self): the descriptor is returned; the command is not touched
Descriptor ==
    /\ cmd.type \in CommandTypes
    /\ desc' = descriptor(cmd)
    /\ reported' = reported \cup {transfer_length(cmd)}
    /\ result' = NoResult
    /\ UNCHANGED <<cmd, transfers, data_length, bf, reg, call, places, queue, wire>>

\* the transport clocks transfer_length bytes out of tx_buf_ptr and into
\* rx_buf_ptr.  A transfer longer than the buffer would write past it: the
\* transfers followed here are those that fit.
Transfer(B) ==
    /\ transfers < MaxTransfers
    /\ desc.rx_buf_ptr # "null"
    /\ desc.transfer_length <= Len(Pointee(cmd, desc.rx_buf_ptr))
    /\ \E frame \in Frames(desc.transfer_length, B) :
           cmd' = Received(cmd, desc, frame)
    /\ result' = NoResult
    /\ transfers' = transfers + 1
    /\ UNCHANGED <<desc, reported, data_length, bf, reg, call, places, queue, wire>>

\* an accessor that takes the reply out of rx_buf, leaving zeros
Call_consuming(type, r) ==
    /\ cmd.type = type
    /\ result' = r
    /\ cmd' = [cmd EXCEPT !.rx_buf = ZeroArray(Len(@))]
    /\ UNCHANGED <<desc, reported, transfers, data_length, bf, reg, call, places, queue, wire>>

Call(type, r) ==
    /\ cmd.type = type
    /\ result' = r
    /\ UNCHANGED <<cmd, desc, reported, transfers, data_length, bf, reg, call, places, queue, wire>>

register == Call("ReadRegister", Returned("register", ReadRegister_register(cmd)))
data ==
    Call("ReadBuffer",
         IF ReadBuffer_data_panics(cmd) THEN Panicked("data")
         ELSE Returned("data", ReadBuffer_data(cmd)))
irq_status == Call("GetIrqStatus", Returned("irq_status", GetIrqStatus_irq_status(cmd)))
packet_type == Call("GetPacketType", Returned("packet_type", GetPacketType_packet_type(cmd)))
status == Call("GetStatus", Returned("status", GetStatus_status(cmd)))
rssi_inst == Call("GetRssiInst", Returned("rssi_inst", GetRssiInst_rssi_inst(cmd)))
payload_length_rx ==
    Call("GetRxBufferStatus",
         Returned("payload_length_rx", GetRxBufferStatus_payload_length_rx(cmd)))
rx_start_buffer_pointer ==
    Call("GetRxBufferStatus",
         Returned("rx_start_buffer_pointer", GetRxBufferStatus_rx_start_buffer_pointer(cmd)))
rssi_pkt == Call("GetPacketStatusLora", Returned("rssi_pkt", GetPacketStatusLora_rssi_pkt(cmd)))
snr_pkt == Call("GetPacketStatusLora", Returned("snr_pkt", GetPacketStatusLora_snr_pkt(cmd)))
signal_rssi_pkt ==
    Call("GetPacketStatusLora",
         Returned("signal_rssi_pkt", GetPacketStatusLora_signal_rssi_pkt(cmd)))
nb_pkt_received ==
    Call("GetStatsLora", Returned("nb_pkt_received", GetStatsLora_nb_pkt_received(cmd)))
nb_pkt_crc_error ==
    Call("GetStatsLora", Returned("nb_pkt_crc_error", GetStatsLora_nb_pkt_crc_error(cmd)))
nb_pkt_header_err ==
    Call("GetStatsLora", Returned("nb_pkt_header_err", GetStatsLora_nb_pkt_header_err(cmd)))
op_error == Call("GetDeviceErrors", Returned("op_error", GetDeviceErrors_op_error(cmd)))

\* a reply of sampled bytes; a first reply of any byte
TransferSampled == Transfer(RxBytes)
TransferAnyByte == transfers = 0 /\ Transfer(Byte)

Constructed(S) ==
    /\ cmd \in S
    /\ desc = NoDescriptor
    /\ result = NoResult
    /\ reported = {}
    /\ transfers = 0
    /\ data_length = << >>
    /\ bf = NoBitfield
    /\ reg = NoRegister
    /\ call = NoCall
    /\ NoQueue

\* every command type, small capacities, sampled reply bytes
Init == Constructed(Commands)
Next ==
    \/ Descriptor
    \/ TransferSampled
    \/ register
    \/ data
    \/ irq_status
    \/ packet_type
    \/ status
    \/ rssi_inst
    \/ payload_length_rx
    \/ rx_start_buffer_pointer
    \/ rssi_pkt
    \/ snr_pkt
    \/ signal_rssi_pkt
    \/ nb_pkt_received
    \/ nb_pkt_crc_error
    \/ nb_pkt_header_err
    \/ op_error
Spec == Init /\ [][Next]_vars

\* the query commands, every reply byte
InitRx == Constructed(QueryCommands)
NextRx ==
    \/ Descriptor
    \/ TransferAnyByte
    \/ TransferSampled
    \/ irq_status
    \/ packet_type
    \/ status
    \/ rssi_inst
    \/ payload_length_rx
    \/ rx_start_buffer_pointer
    \/ rssi_pkt
    \/ snr_pkt
    \/ signal_rssi_pkt
    \/ nb_pkt_received
    \/ nb_pkt_crc_error
    \/ nb_pkt_header_err
    \/ op_error
SpecRx == InitRx /\ [][NextRx]_vars

(***************************************************************************)
(* Capacities around the width of transfer_length (u16).                   *)
(***************************************************************************)
\* the generic commands of one capacity N
LargeCommands(N) ==
    {WriteRegisters_new(N, R, ZeroArray(N - 3)) :
         R \in {"LoraSyncWordMsb", "RxGainRetention1"}}
    \cup {WriteRegisters_new(N, R, [ZeroArray(N - 3) EXCEPT ![1] = 171]) :
         R \in {"LoraSyncWordMsb", "RxGainRetention1"}}
    \cup {ReadRegisters_new(N, R) : R \in {"LoraSyncWordMsb", "RxGainRetention1"}}
    \cup {WriteBuffer_new(N, o, ZeroArray(N - 2)) : o \in {0, 255}}
    \cup {WriteBuffer_new(N, o, [ZeroArray(N - 2) EXCEPT ![1] = 171]) : o \in {0, 255}}
    \cup {ReadBuffer_new(N, o) : o \in {0, 255}}

\* the largest capacity that fits transfer_length, the two after it, and
\* the smallest capacities
InitCap ==
    Constructed({ReadBuffer_new(65535, 0)}
                    \cup LargeCommands(65536) \cup LargeCommands(65537)
                    \cup LargeCommands(3))
NextCap ==
    \/ Descriptor
    \/ TransferSampled
    \/ data
SpecCap == InitCap /\ [][NextCap]_vars

(***************************************************************************)
(* The effective data length of the buffer commands.  The source has no    *)
(* set_data_length: WriteBuffer and ReadBuffer hold tx_buf and rx_buf and  *)
(* nothing else, and descriptor() reports `N as u16`.  The request a       *)
(* caller would make is followed here as the specification words it: it    *)
(* names a length, touches no buffer, and outdates the descriptor taken    *)
(* before it.                                                              *)
(***************************************************************************)
\* the fixed header of a buffer command: N = data length + HeaderLength
HeaderLength(type) == IF type = "WriteBuffer" THEN 2 ELSE 3

SetDataLength ==
    /\ cmd.type \in {"WriteBuffer", "ReadBuffer"}
    /\ \E len \in 0..(cmd.N - HeaderLength(cmd.type)) :
           /\ len >= 0
           /\ data_length' = << len >>
    /\ desc' = NoDescriptor
    /\ result' = NoResult
    /\ UNCHANGED <<cmd, reported, transfers, bf, reg, call, places, queue, wire>>

InitSDL == Constructed(BufferCommands(3..MaxN))
NextSDL ==
    \/ Descriptor
    \/ TransferSampled
    \/ data
    \/ SetDataLength
SpecSDL == InitSDL /\ [][NextSDL]_vars

(***************************************************************************)
(* Register codec rounds: a byte decoded and re-encoded, a value encoded   *)
(* and decoded again.                                                      *)
(***************************************************************************)
RegisterFromBits ==
    /\ reg.R # "None"
    /\ \/ reg.steps = << >> /\ reg.first = "byte"
       \/ reg.steps = << "bits" >>
    /\ reg' = [reg EXCEPT !.r = from_bits(reg.R, reg.b),
                          !.steps = Append(@, "from_bits")]
    /\ UNCHANGED <<cmd, desc, result, reported, transfers, data_length, bf, call, places, queue, wire>>

RegisterBits ==
    /\ reg.R # "None"
    /\ \/ reg.steps = << >> /\ reg.first = "value"
       \/ reg.steps = << "from_bits" >>
    /\ reg' = [reg EXCEPT !.b = bits(reg.r),
                          !.steps = Append(@, "bits")]
    /\ UNCHANGED <<cmd, desc, result, reported, transfers, data_length, bf, call, places, queue, wire>>

InitReg ==
    /\ cmd = NoCommand
    /\ desc = NoDescriptor
    /\ result = NoResult
    /\ reported = {}
    /\ transfers = 0
    /\ data_length = << >>
    /\ bf = NoBitfield
    /\ call = NoCall
    /\ NoQueue
    /\ \E R \in Registers :
           \/ \E v \in Byte :
                  reg = [R |-> R, first |-> "byte", steps |-> << >>,
                         b0 |-> v, b |-> v,
                         r0 |-> from_bits(R, 0), r |-> from_bits(R, 0)]
           \/ \E x \in RegisterValues(R) :
                  reg = [R |-> R, first |-> "value", steps |-> << >>,
                         b0 |-> 0, b |-> 0, r0 |-> x, r |-> x]
NextReg ==
    \/ RegisterFromBits
    \/ RegisterBits
SpecReg == InitReg /\ [][NextReg]_vars

(***************************************************************************)
(* Bitfield values in the hands of a caller: built from new() by with_*,   *)
(* or taken from a raw integer by from_bits; decoded again from their raw  *)
(* integer; passed to the constructors that take one.                      *)
(***************************************************************************)
\* the value of every named member after new()
DefaultFields(T) ==
    [name \in FieldNames(Bitfields[T]) |->
        CASE FieldType(T, name) = "ChipMode"      -> ChipMode_from_bits(0)
          [] FieldType(T, name) = "CommandStatus" -> CommandStatus_from_bits(0)
          [] OTHER -> FALSE]

\* the integer with exactly the bits of S set
RECURSIVE BitsValue(_)
BitsValue(S) ==
    IF S = {} THEN 0
    ELSE LET p == CHOOSE q \in S : TRUE IN 2 ^ p + BitsValue(S \ {p})

\* the lowest of a set of bit positions
Lowest(S) == CHOOSE p \in S : \A q \in S : p <= q

\* raw integers tried with from_bits: every value of an 8-bit bitfield; of a
\* 16-bit one, the lowest reserved bit, all reserved bits, and all bits
RawSamples(T) ==
    IF Bitfields[T].int = 8 THEN Byte
    ELSE {2 ^ Lowest(ReservedBits(Bitfields[T])),
          BitsValue(ReservedBits(Bitfields[T])), 65535}

\* bf.fields follows what the caller asked for: the value given to with_*,
\* and after from_bits what the getters of the value read
With ==
    /\ bf.type \in DOMAIN Bitfields
    /\ \E name \in FieldNames(Bitfields[bf.type]) :
           \E value \in FieldValues(bf.type, name) :
               bf' = [bf EXCEPT !.v = field_with(bf.type, @, name, value),
                                !.fields[name] = value]
    /\ cmd' = NoCommand
    /\ result' = NoResult
    /\ UNCHANGED <<desc, reported, transfers, data_length, reg, call, places, queue, wire>>

FromBits ==
    /\ bf.type \in DOMAIN Bitfields
    /\ \E raw \in RawSamples(bf.type) :
           bf' = [bf EXCEPT !.v = bitfield_from_bits(raw),
                            !.fields = Fields(bf.type, bitfield_from_bits(raw))]
    /\ cmd' = NoCommand
    /\ result' = NoResult
    /\ UNCHANGED <<desc, reported, transfers, data_length, reg, call, places, queue, wire>>

\* the raw integer of the value, decoded again and read member by member
RoundTrip ==
    /\ bf.type \in DOMAIN Bitfields
    /\ result' = Returned("round_trip",
                          Fields(bf.type, bitfield_from_bits(bitfield_into_bits(bf.v))))
    /\ cmd' = NoCommand
    /\ UNCHANGED <<bf, desc, reported, transfers, data_length, reg, call, places, queue, wire>>

CalibrateNew ==
    /\ bf.type = "CalibrationSetting"
    /\ cmd' = Calibrate_new(bf.v)
    /\ result' = NoResult
    /\ UNCHANGED <<bf, desc, reported, transfers, data_length, reg, call, places, queue, wire>>

ClearIrqStatusNew ==
    /\ bf.type = "Irq"
    /\ cmd' = ClearIrqStatus_new(bf.v)
    /\ result' = NoResult
    /\ UNCHANGED <<bf, desc, reported, transfers, data_length, reg, call, places, queue, wire>>

\* the value as two of the four masks, the others empty
SetDioIrqParamsNew ==
    /\ bf.type = "Irq"
    /\ \E S \in {{1, 3}, {2, 4}} :
           LET mask(k) == IF k \in S THEN bf.v ELSE bitfield_new
           IN  cmd' = SetDioIrqParams_new(mask(1), mask(2), mask(3), mask(4))
    /\ result' = NoResult
    /\ UNCHANGED <<bf, desc, reported, transfers, data_length, reg, call, places, queue, wire>>

InitBitfield ==
    /\ cmd = NoCommand
    /\ desc = NoDescriptor
    /\ result = NoResult
    /\ reported = {}
    /\ transfers = 0
    /\ data_length = << >>
    /\ reg = NoRegister
    /\ call = NoCall
    /\ NoQueue
    /\ \E T \in DOMAIN Bitfields :
           bf = [type |-> T, v |-> bitfield_new, fields |-> DefaultFields(T)]
NextBitfield ==
    \/ With
    \/ FromBits
    \/ RoundTrip
    \/ CalibrateNew
    \/ ClearIrqStatusNew
    \/ SetDioIrqParamsNew
SpecBitfield == InitBitfield /\ [][NextBitfield]_vars

(***************************************************************************)
(* Constructor calls: a caller holds the arguments of a call, makes it,    *)
(* and uses the command as before.                                         *)
(***************************************************************************)
\* u32 and u16 arguments tried: every byte of the argument zero, non-zero,
\* all ones, and different from its neighbours
U32Inputs ==
    U32Samples \cup {255, 256, 1000, 65535, 65536, 16777215, 16777216, 16909060}
U16Inputs == U16Samples \cup {255, 256, 4660}

\* the arrays [u8; n] passed as data, and the first n bytes of the arrays
\* of the register tests
DataInputs(n) ==
    DataArrays(n) \cup {[i \in 1..n |-> << 103, 152, 100, 84, 8, 172 >>[((i - 1) % 6) + 1]]}

\* Self::new(args) of the command type named by the call
Construct(c) ==
    CASE c.fn = "SetSleep" -> SetSleep_new(c.args[1])
      [] c.fn = "SetTx" -> SetTx_new(c.args[1])
      [] c.fn = "SetRx" -> SetRx_new(c.args[1])
      [] c.fn = "SetRxDutyCycle" -> SetRxDutyCycle_new(c.args[1], c.args[2])
      [] c.fn = "SetDio3AsTcxoCtrl" -> SetDio3AsTcxoCtrl_new(c.args[1], c.args[2])
      [] c.fn = "SetRfFrequency" -> SetRfFrequency_new(c.args[1])
      [] c.fn = "SetPacketParams" ->
             SetPacketParams_new(c.args[1], c.args[2], c.args[3], c.args[4], c.args[5])
      [] c.fn = "SetCadParams" ->
             SetCadParams_new(c.args[1], c.args[2], c.args[3], c.args[4], c.args[5])
      [] c.fn = "WriteRegister" -> WriteRegister_new(c.args[1])
      [] c.fn = "WriteRegisters" -> WriteRegisters_new(c.args[1], c.args[2], c.args[3])
      [] c.fn = "ReadRegister" -> ReadRegister_new(c.args[1])
      [] c.fn = "ReadRegisters" -> ReadRegisters_new(c.args[1], c.args[2])
      [] c.fn = "WriteBuffer" -> WriteBuffer_new(c.args[1], c.args[2], c.args[3])
      [] c.fn = "ReadBuffer" -> ReadBuffer_new(c.args[1], c.args[2])

\* the call is made: the command is the value the constructor returns
New ==
    /\ call.fn # "none"
    /\ cmd = NoCommand
    /\ cmd' = Construct(call)
    /\ UNCHANGED <<desc, result, reported, transfers, data_length, bf, reg, call, places, queue, wire>>

\* a caller about to make the call fn(args)
Calling(fn, args) ==
    /\ call = [fn |-> fn, args |-> args]
    /\ cmd = NoCommand
    /\ desc = NoDescriptor
    /\ result = NoResult
    /\ reported = {}
    /\ transfers = 0
    /\ data_length = << >>
    /\ bf = NoBitfield
    /\ reg = NoRegister
    /\ NoQueue

\* the constructors with integer, bitfield, register and array arguments
InitNew ==
    \/ \E w \in BOOLEAN : Calling("SetSleep", << w >>)
    \/ \E t \in U32Inputs : Calling("SetTx", << t >>)
    \/ \E t \in U32Inputs : Calling("SetRx", << t >>)
    \/ \E r \in U32Inputs, sl \in U32Inputs : Calling("SetRxDutyCycle", << r, sl >>)
    \/ \E v \in {"V1_6", "V3_3"}, d \in U32Inputs :
           Calling("SetDio3AsTcxoCtrl", << v, d >>)
    \/ \E f \in U32Inputs : Calling("SetRfFrequency", << f >>)
    \/ \E pl \in U16Inputs, h \in DOMAIN HeaderType, crc \in BOOLEAN :
           Calling("SetPacketParams", << pl, h, 255, crc, "Standard" >>)
    \/ \E n \in {"CadOn1Symb", "CadOn16Symb"}, e \in DOMAIN CadExitMode, t \in U32Inputs :
           Calling("SetCadParams", << n, 22, 10, e, t >>)
    \/ \E R \in Registers : \E r \in RegisterValues(R) :
           Calling("WriteRegister", << r >>)
    \/ \E N \in 3..MaxN, R \in Registers : \E d \in DataInputs(N - 3) :
           Calling("WriteRegisters", << N, R, d >>)
    \/ \E R \in Registers : Calling("ReadRegister", << R >>)
    \/ \E N \in 3..MaxN, R \in Registers : Calling("ReadRegisters", << N, R >>)
    \/ \E N \in 2..MaxN, o \in Offsets : \E d \in DataInputs(N - 2) :
           Calling("WriteBuffer", << N, o, d >>)
NextNew ==
    \/ New
    \/ Descriptor
    \/ TransferSampled
SpecNew == InitNew /\ [][NextNew]_vars

\* a single register read and a buffer read, every reply byte
InitRead ==
    \/ \E R \in Registers : Calling("ReadRegister", << R >>)
    \/ \E N \in 2..MaxN, o \in Offsets : Calling("ReadBuffer", << N, o >>)
NextRead ==
    \/ New
    \/ Descriptor
    \/ TransferAnyByte
    \/ TransferSampled
    \/ register
    \/ data
SpecRead == InitRead /\ [][NextRead]_vars

(***************************************************************************)
(* Several commands and a queue of descriptors (src/lib.rs).  A command    *)
(* value lives in a place; as_ptr() of one of its buffers is the place and *)
(* the field.  A place is "live" while it holds a command, "moved" once    *)
(* the command was moved out of it, and "empty" before any use.            *)
(***************************************************************************)
\* the places of the model: statics and bindings
Places == {"p1", "p2", "p3"}
\* descriptors pushed to the queue in one behaviour
MaxPushes == 3
\* moves followed for one command value
MaxMoves == 1

EmptyPlace == [state |-> "empty", id |-> 0, moves |-> 0, c |-> NoCommand]
Live(p) == places[p].state = "live"

\* self.tx_buf.as_ptr() / self.rx_buf.as_ptr() of the command in place p
as_ptr(p, field) == [place |-> p, field |-> field]

\* descriptors that all designate the buffers of the first place
descriptor_at_first(p) ==
    LET d == descriptor(places[p].c)
    IN  [ tx_buf_ptr |-> as_ptr("p1", d.tx_buf_ptr),
          rx_buf_ptr |-> as_ptr("p1", d.rx_buf_ptr),
          transfer_length |-> d.transfer_length ]

\* descriptor(&self) of the command in place p
descriptor_at(p) ==
    LET d == descriptor(places[p].c)
    IN  [ tx_buf_ptr |-> as_ptr(p, d.tx_buf_ptr),
          rx_buf_ptr |-> as_ptr(p, d.rx_buf_ptr),
          transfer_length |-> d.transfer_length ]

\* a queue entry: the descriptor, and the command it was taken from (its
\* identity, the moves it had made and its tx_buf when the descriptor was
\* taken)
Entry(p) ==
    [ d |-> descriptor_at(p), id |-> places[p].id, moves |-> places[p].moves,
      tx_buf |-> places[p].c.tx_buf ]

\* the place that holds the command with identity id now
PlaceOf(id) == CHOOSE p \in Places : Live(p) /\ places[p].id = id

\* the descriptor still designates the buffers of the command it was taken from
Designates(e) ==
    /\ Live(e.d.tx_buf_ptr.place)
    /\ places[e.d.tx_buf_ptr.place].id = e.id
    /\ places[e.d.tx_buf_ptr.place].moves = e.moves

\* the bytes behind a pointer: the storage of the place keeps the bytes
\* last written to it
Behind(ptr) == Pointee(places[ptr.place].c, ptr.field)

\* the replies the transport is tried with: n bytes of one value
Replies(n) == {[i \in 1..n |-> b] : b \in RxBytes}

\* the storage behind ptr after n bytes were stored at its start
StoredBehind(ptr, reply) ==
    LET c == places[ptr.place].c
        n == Len(reply)
    IN  IF n > Len(Pointee(c, ptr.field)) THEN places
        ELSE IF ptr.field = "tx_buf"
        THEN [places EXCEPT ![ptr.place].c.tx_buf = reply \o SubSeq(@, n + 1, Len(@))]
        ELSE [places EXCEPT ![ptr.place].c.rx_buf = reply \o SubSeq(@, n + 1, Len(@))]

\* queue.push_back(&descriptor) of the descriptor of the command in place p
PushBack ==
    /\ Len(queue) + transfers < MaxPushes
    /\ \E p \in Places :
           /\ Live(p)
           /\ queue' = Append(queue, Entry(p))
    /\ UNCHANGED <<cmd, desc, result, reported, transfers, data_length, bf, reg, call,
                   places, wire>>

\* queue.pop_front() and the transfer of the descriptor.  A descriptor that
\* designates the command it was taken from is read through tx_buf_ptr and
\* written through rx_buf_ptr.  A descriptor whose command was moved is a
\* dangling pointer and the transfer undefined behaviour: the bytes read are
\* those the storage holds now or any others, and the reply lands in the
\* storage or nowhere.
PopFront ==
    /\ queue # << >>
    /\ LET e == Head(queue)
           n == e.d.transfer_length
       IN  /\ n <= Len(Behind(e.d.tx_buf_ptr))
           /\ \E reply \in Replies(n) :
                  \/ /\ wire' = [made |-> TRUE, e |-> e, reply |-> reply,
                                 tx |-> SubSeq(Behind(e.d.tx_buf_ptr), 1, n)]
                     /\ places' = StoredBehind(e.d.rx_buf_ptr, reply)
                  \/ /\ ~Designates(e)
                     /\ wire' = [made |-> TRUE, e |-> e, reply |-> reply,
                                 tx |-> ZeroArray(n)]
                     /\ places' = places
    /\ queue' = Tail(queue)
    /\ transfers' = transfers + 1
    /\ result' = NoResult
    /\ UNCHANGED <<cmd, desc, reported, data_length, bf, reg, call>>

\* a move that leaves the command value where it was
Move_without_relocation ==
    /\ \E p \in Places :
           /\ Live(p)
           /\ places[p].moves < MaxMoves
           /\ places' = [places EXCEPT ![p].moves = @ + 1]
    /\ result' = NoResult
    /\ UNCHANGED <<cmd, desc, reported, transfers, data_length, bf, reg, call,
                   queue, wire>>

\* `let q = p;`: the command value of place p is moved to place q, which
\* holds no command; the storage of p is dead and keeps its bytes until it
\* is used again
Move ==
    /\ \E p \in Places, q \in Places :
           /\ Live(p)
           /\ ~Live(q)
           /\ places[p].moves < MaxMoves
           /\ places' = [places EXCEPT ![q] = [places[p] EXCEPT !.moves = @ + 1],
                                       ![p].state = "moved"]
    /\ result' = NoResult
    /\ UNCHANGED <<cmd, desc, reported, transfers, data_length, bf, reg, call,
                   queue, wire>>

\* the typed accessor of the command in place p
AccessorAt ==
    /\ \E p \in Places :
           /\ Live(p)
           /\ \/ /\ places[p].c.type = "ReadRegister"
                 /\ result' = [op |-> "register", id |-> places[p].id,
                               val |-> ReadRegister_register(places[p].c), panic |-> FALSE]
              \/ /\ places[p].c.type = "GetStatus"
                 /\ result' = [op |-> "status", id |-> places[p].id,
                               val |-> GetStatus_status(places[p].c), panic |-> FALSE]
    /\ UNCHANGED <<cmd, desc, reported, transfers, data_length, bf, reg, call,
                   places, queue, wire>>

\* the places hold the commands cs, one each, and nothing is queued
Placed(cs) ==
    /\ places = [p \in Places |->
                    IF cs[p] = NoCommand THEN EmptyPlace
                    ELSE [state |-> "live", c |-> cs[p], moves |-> 0,
                          id |-> CHOOSE k \in 1..3 : << "p1", "p2", "p3" >>[k] = p]]
    /\ queue = << >>
    /\ wire = NoWire
    /\ cmd = NoCommand
    /\ desc = NoDescriptor
    /\ result = NoResult
    /\ reported = {}
    /\ transfers = 0
    /\ data_length = << >>
    /\ bf = NoBitfield
    /\ reg = NoRegister
    /\ call = NoCall

\* three statics as in test_queue, and other commands in their places
InitQueue ==
    \E c1 \in {SetSleep_new(TRUE), GetStatus_new},
       c2 \in {SetStandby_new("StdbyRc"), SetSleep_new(TRUE)},
       c3 \in {WriteBuffer_new(7, 0, << 2, 4, 7, 9, 3 >>), ReadRegister_new("LoraSyncWordLsb")} :
        Placed([p \in Places |-> IF p = "p1" THEN c1 ELSE IF p = "p2" THEN c2 ELSE c3])
NextQueue ==
    \/ PushBack
    \/ PopFront
    \/ AccessorAt
SpecQueue == InitQueue /\ [][NextQueue]_vars

\* two commands and a free place to move them to
InitMove ==
    \E c1 \in {ReadRegister_new("LoraSyncWordLsb"), GetStatus_new},
       c2 \in {GetStatus_new, SetSleep_new(TRUE)} :
        Placed([p \in Places |-> IF p = "p1" THEN c1 ELSE IF p = "p2" THEN c2 ELSE NoCommand])
NextMove ==
    \/ PushBack
    \/ PopFront
    \/ Move
    \/ AccessorAt
SpecMove == InitMove /\ [][NextMove]_vars

(***************************************************************************)
(* Construction of the commands with a capacity N, small capacities        *)
(* included, in a const context (a const or static initializer) and at     *)
(* run time.                                                               *)
(***************************************************************************)
\* the length `N - 3` / `N - 2` in the type of the data parameter of new():
\* a usize expression evaluated when the type is instantiated
DataLength(type, N) == IF type = "WriteRegisters" THEN N - 3 ELSE N - 2
\* the highest constant index new() stores to in tx_buf
LastIndexStored(type) ==
    IF type \in {"WriteRegisters", "ReadRegisters"} THEN 2 ELSE 1

\* what becomes of Self::<N>::new(..): an underflow of the usize expression
\* in the parameter type fails the build; an index past the array panics,
\* which fails the build when new() is evaluated in a const context and is
\* a panic of the running program otherwise
new_outcome(type, N, at) ==
    IF type \in {"WriteRegisters", "WriteBuffer"} /\ DataLength(type, N) < 0
    THEN "compile error"
    ELSE IF LastIndexStored(type) >= N
    THEN IF at = "const context" THEN "compile error" ELSE "panic"
    ELSE "constructed"

\* the call of a constructor with a capacity
NewWithCapacity ==
    /\ call.fn \in GenericTypes
    /\ cmd = NoCommand
    /\ result = NoResult
    /\ LET o == new_outcome(call.fn, call.args[1], call.at)
       IN  /\ result' = [op |-> "new", val |-> o, panic |-> o = "panic"]
           /\ cmd' = IF o = "constructed" THEN Construct(call) ELSE NoCommand
    /\ UNCHANGED <<desc, reported, transfers, data_length, bf, reg, call,
                   places, queue, wire>>

\* a caller about to make the call fn(args) in a const context or at run time
CallingAt(fn, args, at) ==
    /\ call = [fn |-> fn, args |-> args, at |-> at]
    /\ cmd = NoCommand
    /\ desc = NoDescriptor
    /\ result = NoResult
    /\ reported = {}
    /\ transfers = 0
    /\ data_length = << >>
    /\ bf = NoBitfield
    /\ reg = NoRegister
    /\ NoQueue

\* the data arrays of a capacity: none can be written down when the length
\* expression underflows
DataOf(n) == IF n < 0 THEN {<< >>} ELSE DataInputs(n)

InitSmall ==
    \E N \in 0..MaxN, at \in {"const context", "run time"} :
        \/ \E R \in {"LoraSyncWordMsb", "RxGain"} : \E d \in DataOf(N - 3) :
               CallingAt("WriteRegisters", << N, R, d >>, at)
        \/ \E R \in {"LoraSyncWordMsb", "RxGain"} :
               CallingAt("ReadRegisters", << N, R >>, at)
        \/ \E o \in Offsets : \E d \in DataOf(N - 2) :
               CallingAt("WriteBuffer", << N, o, d >>, at)
        \/ \E o \in Offsets : CallingAt("ReadBuffer", << N, o >>, at)
NextSmall ==
    \/ NewWithCapacity
    \/ Descriptor
    \/ TransferSampled
    \/ data
SpecSmall == InitSmall /\ [][NextSmall]_vars

(***************************************************************************)
(* Properties.                                                             *)
(***************************************************************************)
DescriptorTaken == desc.rx_buf_ptr # "null"

\* C1: for every command type, in every state reached from construction by
\* descriptor() calls, transport writes into rx_buf and accessor calls,
\* tx_buf[0] is the opcode constant of the command.
C1_OpcodeAtTxBuf0 ==
    cmd.type \in CommandTypes => Idx(cmd.tx_buf, 0) = OPCODE[cmd.type]

\* a GetStatus whose descriptor was taken, whose rx_buf the transport wrote
\* 0x64 into, and whose status() was read
C1_StatusReadAfterTransfer ==
    /\ cmd.type = "GetStatus"
    /\ DescriptorTaken
    /\ transfers = 1
    /\ Idx(cmd.rx_buf, 1) = 100
    /\ result.op = "status"
    /\ Idx(cmd.tx_buf, 0) = 192

\* C2: for every command without a capacity, the transfer_length of its
\* descriptor is the length of rx_buf, which is the length of tx_buf, and
\* every descriptor() call of the command's life has reported that one
\* value, whatever the transport wrote in between.
C2_FixedTransferLength ==
    (cmd.type \in CommandTypes \ GenericTypes) =>
        /\ Len(cmd.rx_buf) = Len(cmd.tx_buf)
        /\ DescriptorTaken => desc.transfer_length = Len(cmd.rx_buf)
        /\ \A l \in reported : l = Len(cmd.rx_buf)

\* a GetPacketStatusLora after a transfer that changed rx_buf, its
\* descriptor reporting 5
C2_PacketStatusAfterTransfer ==
    /\ cmd.type = "GetPacketStatusLora"
    /\ transfers = 1
    /\ cmd.rx_buf # ZeroArray(5)
    /\ desc.transfer_length = 5
    /\ reported = {5}

\* C3: for WriteRegisters<N>, ReadRegisters<N>, WriteBuffer<N> and
\* ReadBuffer<N>, the transfer_length of the descriptor is rx_buf.len(),
\* which is N, for every capacity N, those above 65535 included.
C3_GenericTransferLength ==
    (cmd.type \in GenericTypes /\ DescriptorTaken) =>
        /\ Len(cmd.rx_buf) = cmd.N
        /\ desc.transfer_length = Len(cmd.rx_buf)

(***************************************************************************)
(* The buffer commands and the requested data length.                      *)
(***************************************************************************)
WriteBuffer7 == cmd.type = "WriteBuffer" /\ cmd.N = 7
BufferCommand == cmd.type \in {"WriteBuffer", "ReadBuffer"}

ByteRound == reg.first = "byte" /\ reg.steps = << "from_bits", "bits" >>
ValueRound == reg.first = "value" /\ reg.steps = << "bits", "from_bits" >>

\* C6 as stated: for every register type and every byte v,
\* from_bits(v).bits() is v.
C6_EveryByteComesBack == ByteRound => reg.b = reg.b0

\* C6 as the code has it: from_bits(v).bits() is v for the six registers
\* holding a byte, and for RxGain when v is 0x00, 0x94 or 0x96; every other
\* byte decodes to RxGain(Unknown) and comes back as 0x00.  For every
\* register type and every value r of it, from_bits(r.bits()) is r.
C6_RegisterRoundTrip ==
    /\ ByteRound =>
           IF reg.R = "RxGain" /\ reg.b0 \notin {0, 148, 150}
           THEN reg.r.v = "Unknown" /\ reg.b = 0
           ELSE reg.b = reg.b0
    /\ ValueRound => reg.r = reg.r0

\* RxGain decoded from 0x96 and encoded again
C6_BoostedRound ==
    /\ ByteRound
    /\ reg.R = "RxGain"
    /\ reg.b0 = 150
    /\ reg.r.v = "Boosted"
    /\ reg.b = 150

(***************************************************************************)
(* The bitfields.                                                          *)
(***************************************************************************)
\* C7: for each bitfield type and every combination of values of its named
\* members, the value built from them, taken as its raw integer and decoded
\* again, reads the same value for every named member.
C7_BitfieldRoundTrip ==
    result.op = "round_trip" => result.val = bf.fields

\* a Status built with chip_mode Rx and command_status CommandTxDone,
\* decoded again
C7_StatusRound ==
    /\ bf.type = "Status"
    /\ result.op = "round_trip"
    /\ bf.fields.chip_mode = "Rx"
    /\ bf.fields.command_status = "CommandTxDone"
    /\ bf.v.raw = 92

\* no reserved bit of layout L is set in raw
ReservedClear(L, raw) == \A p \in ReservedBits(L) : (raw \div (2 ^ p)) % 2 = 0

\* C8: whatever bitfield value is passed to Calibrate::new,
\* SetDioIrqParams::new or ClearIrqStatus::new, a value taken from a raw
\* integer included, the reserved bits of the bitfield are zero in the
\* bytes written to tx_buf.
C8_ReservedZeroInTxBuf ==
    /\ cmd.type = "Calibrate" =>
           ReservedClear(CalibrationSetting, Idx(cmd.tx_buf, 1))
    /\ cmd.type = "ClearIrqStatus" =>
           ReservedClear(Irq, be16(Idx(cmd.tx_buf, 1), Idx(cmd.tx_buf, 2)))
    /\ cmd.type = "SetDioIrqParams" =>
           \A k \in 0..3 :
               ReservedClear(Irq, be16(Idx(cmd.tx_buf, 1 + 2 * k),
                                       Idx(cmd.tx_buf, 2 + 2 * k)))

\* the value decoded from a receive buffer that differs from rx_buf in the
\* reserved bits only: they are zero in it
ReservedZeroed(T, v) ==
    bitfield_from_bits(
        v.raw - BitsValue({p \in ReservedBits(Bitfields[T]) : (v.raw \div (2 ^ p)) % 2 = 1}))

DecodedType(op) ==
    CASE op = "irq_status" -> "Irq"
      [] op = "op_error" -> "OpError"
      [] op = "status" -> "Status"

\* C9: for irq_status, op_error and status, two receive buffers that
\* differ in reserved bits only decode to values that are equal member by
\* member and equal under the type's ==.
C9_ReservedIgnoredOnDecode ==
    result.op \in {"irq_status", "op_error", "status"} =>
        LET T == DecodedType(result.op)
            w == ReservedZeroed(T, result.val)
        IN  /\ Fields(T, result.val) = Fields(T, w)
            /\ bitfield_eq(result.val, w)

(***************************************************************************)
(* The signal strengths.                                                   *)
(***************************************************************************)
\* the value -(r div 2) of the byte r, returned without overflow
Rssi(r) == [value |-> 0 - (r \div 2), overflow |-> FALSE]

\* C10: for every byte r, rssi_pkt (of rx_buf[2]), signal_rssi_pkt (of
\* rx_buf[4]) and rssi_inst (of rx_buf[2]) return -(r div 2), the division
\* made on the unsigned byte; the value is within -127..0 and the negation
\* never overflows i8.
C10_RssiIsHalfNegated ==
    /\ result.op = "rssi_pkt" => result.val = Rssi(Idx(cmd.rx_buf, 2))
    /\ result.op = "signal_rssi_pkt" => result.val = Rssi(Idx(cmd.rx_buf, 4))
    /\ result.op = "rssi_inst" => result.val = Rssi(Idx(cmd.rx_buf, 2))
    /\ result.op \in {"rssi_pkt", "signal_rssi_pkt", "rssi_inst"} =>
           result.val.value \in -127..0

\* rssi_pkt read from the byte 184
C10_RssiPkt184 ==
    /\ cmd.type = "GetPacketStatusLora"
    /\ result.op = "rssi_pkt"
    /\ Idx(cmd.rx_buf, 2) = 184
    /\ result.val.value = -92

\* the two's-complement value of the byte r
Signed(r) == IF r >= 128 THEN r - 256 ELSE r

\* q is s / 4 truncated toward zero: the remainder is less than 4 in
\* magnitude and has the sign of s
TruncatedQuarter(s, q) ==
    \E rem \in -3..3 : s = 4 * q + rem /\ rem * s >= 0

\* C11: for every byte r at rx_buf[3], snr_pkt returns the two's-complement
\* value of r divided by 4 and truncated toward zero (0b11111100 gives -1,
\* 0b11111101 gives 0); the value is within -32..31.
C11_SnrIsSignedQuarter ==
    result.op = "snr_pkt" =>
        /\ TruncatedQuarter(Signed(Idx(cmd.rx_buf, 3)), result.val)
        /\ result.val \in -32..31
        /\ Idx(cmd.rx_buf, 3) = 252 => result.val = -1
        /\ Idx(cmd.rx_buf, 3) = 253 => result.val = 0

\* snr_pkt read from the byte 0b11111100
C11_SnrPkt252 ==
    /\ cmd.type = "GetPacketStatusLora"
    /\ result.op = "snr_pkt"
    /\ Idx(cmd.rx_buf, 3) = 252
    /\ result.val = -1

(***************************************************************************)
(* The accessors as total functions of rx_buf.                             *)
(***************************************************************************)
\* C12: every typed accessor of every command returns a value for every
\* content of rx_buf: no call panics, data() of a ReadBuffer of any
\* capacity it can be constructed with included, no negation overflows
\* and no decoded enumeration is outside its members.
C12_AccessorsReturn ==
    /\ result.op # "none" => ~result.panic
    /\ result.op \in {"rssi_pkt", "signal_rssi_pkt", "rssi_inst"} =>
           ~result.val.overflow
    /\ result.op = "packet_type" => result.val \in DOMAIN PacketType

\* C13: for every byte b at rx_buf[2], packet_type returns the PacketType
\* member whose code is b mod 4 (0x05 gives Lora, 0x02 gives Reserved); for
\* every byte at rx_buf[1], chip_mode and command_status of status() are
\* the members whose codes are bits 6..4 and bits 3..1 of the byte; no byte
\* gives a value outside the declared members.
C13_EnumsDecodeByMask ==
    /\ result.op = "packet_type" =>
           /\ result.val \in DOMAIN PacketType
           /\ PacketType[result.val] = Idx(cmd.rx_buf, 2) % 4
           /\ Idx(cmd.rx_buf, 2) = 5 => result.val = "Lora"
           /\ Idx(cmd.rx_buf, 2) = 2 => result.val = "Reserved"
    /\ result.op = "status" =>
           LET b  == Idx(cmd.rx_buf, 1)
               cm == field_get("Status", result.val, "chip_mode")
               cs == field_get("Status", result.val, "command_status")
           IN  /\ cm \in DOMAIN ChipMode
               /\ ChipMode[cm] = (b \div 16) % 8
               /\ cs \in DOMAIN CommandStatus
               /\ CommandStatus[cs] = (b \div 2) % 8

\* packet_type read from the byte 0x05
C13_PacketType5 ==
    /\ cmd.type = "GetPacketType"
    /\ result.op = "packet_type"
    /\ Idx(cmd.rx_buf, 2) = 5
    /\ result.val = "Lora"

(***************************************************************************)
(* The constructors.                                                       *)
(***************************************************************************)
\* the constructor named by the call has returned the command
Made(fn) == call.fn = fn /\ cmd.type = fn

\* the number a sequence of bytes spells, most significant byte first
RECURSIVE BigEndian(_)
BigEndian(bytes) ==
    IF bytes = << >> THEN 0
    ELSE 256 * BigEndian(SubSeq(bytes, 1, Len(bytes) - 1)) + bytes[Len(bytes)]

\* tx_buf[from..=to] (zero-based) holds the bytes of value, most
\* significant first
Spells(from, to, value) ==
    /\ \A i \in from..to : Idx(cmd.tx_buf, i) \in Byte
    /\ BigEndian(SubSeq(cmd.tx_buf, from + 1, to + 1)) = value

\* C14: SetTx, SetRx, SetRxDutyCycle, SetDio3AsTcxoCtrl and SetCadParams
\* write the three bytes of (argument mod 2^24), most significant first;
\* SetRfFrequency writes the four bytes of rf_freq and SetPacketParams the
\* two bytes of preamble_length, most significant first (455081984 gives
\* [0x86, 0x1B, 0x20, 0x00, 0x00]); every call returns a command.
C14_BigEndianParameters ==
    /\ Made("SetTx") => Spells(1, 3, call.args[1] % 16777216)
    /\ Made("SetRx") => Spells(1, 3, call.args[1] % 16777216)
    /\ Made("SetRxDutyCycle") =>
           /\ Spells(1, 3, call.args[1] % 16777216)
           /\ Spells(4, 6, call.args[2] % 16777216)
    /\ Made("SetDio3AsTcxoCtrl") => Spells(2, 4, call.args[2] % 16777216)
    /\ Made("SetCadParams") => Spells(5, 7, call.args[5] % 16777216)
    /\ Made("SetRfFrequency") =>
           /\ Spells(1, 4, call.args[1])
           /\ call.args[1] = 455081984 => cmd.tx_buf = << 134, 27, 32, 0, 0 >>
    /\ Made("SetPacketParams") => Spells(1, 2, call.args[1])
    /\ (call.fn # "none" /\ cmd = NoCommand) => ENABLED New

\* SetTx built from a timeout above 2^24 - 1, its descriptor taken
C14_SetTxTruncated ==
    /\ Made("SetTx")
    /\ call.args[1] = 16909060
    /\ cmd.tx_buf = << 131, 2, 3, 4 >>
    /\ DescriptorTaken

\* C15: SetSleep::new(true) gives tx_buf [0x84, 0x04] and
\* SetSleep::new(false) gives [0x84, 0x00]: warm_start is bit 2 of the
\* configuration byte and every other bit of it is zero.
C15_SetSleepBytes ==
    Made("SetSleep") =>
        /\ call.args[1] => cmd.tx_buf = << 132, 4 >>
        /\ ~call.args[1] => cmd.tx_buf = << 132, 0 >>
        /\ (Idx(cmd.tx_buf, 1) \div 4) % 2 = bool_as_u8(call.args[1])
        /\ Idx(cmd.tx_buf, 1) % 4 = 0
        /\ Idx(cmd.tx_buf, 1) \div 8 = 0

\* SetSleep::new(true), its descriptor taken
C15_WarmStart ==
    /\ Made("SetSleep")
    /\ call.args[1]
    /\ cmd.tx_buf = << 132, 4 >>
    /\ DescriptorTaken

\* the high and the low byte of the address of register type R
AddressHigh(R) == ADDRESS[R] \div 256
AddressLow(R) == ADDRESS[R] % 256

\* C16: for every register type R and every value r of R,
\* WriteRegister::new(r) gives the 4-byte tx_buf [0x0D, high byte of R's
\* address, low byte of R's address, r.bits()].
C16_WriteRegisterBytes ==
    Made("WriteRegister") =>
        LET r == call.args[1]
        IN  cmd.tx_buf = << 13, AddressHigh(r.reg), AddressLow(r.reg), bits(r) >>

\* WriteRegister::new(RxGain(Boosted)), as in test_write_rx_gain
C16_WriteRxGainBoosted ==
    /\ Made("WriteRegister")
    /\ call.args[1] = [reg |-> "RxGain", v |-> "Boosted"]
    /\ cmd.tx_buf = << 13, 8, 172, 150 >>

\* C17: for every register type R, ReadRegister::<R>::new() gives tx_buf
\* [0x1D, high byte of R's address, low byte, 0, 0], also after transfers;
\* register() is R::from_bits(rx_buf[4]) whatever rx_buf[0..3] hold, and
\* for a byte register it is the byte itself (0x86 gives 0x86).
C17_ReadRegisterBytes ==
    /\ Made("ReadRegister") =>
           /\ cmd.R = call.args[1]
           /\ cmd.tx_buf = << 29, AddressHigh(cmd.R), AddressLow(cmd.R), 0, 0 >>
    /\ (Made("ReadRegister") /\ result.op = "register") =>
           /\ result.val = from_bits(cmd.R, Idx(cmd.rx_buf, 4))
           /\ cmd.R # "RxGain" => result.val = [reg |-> cmd.R, v |-> Idx(cmd.rx_buf, 4)]

\* LoraSyncWordLsb read from a reply with 0x86 in the last byte
C17_SyncWordLsb86 ==
    /\ Made("ReadRegister")
    /\ cmd.tx_buf = << 29, 7, 65, 0, 0 >>
    /\ transfers = 1
    /\ Idx(cmd.rx_buf, 4) = 134
    /\ result = Returned("register", [reg |-> "LoraSyncWordLsb", v |-> 134])

\* C18: for every register type R and every data array of M = N - 3 bytes,
\* WriteRegisters::<N>::new::<R>(data) gives tx_buf [0x0D, high byte of
\* R's address, low byte] followed by the M data bytes in their order
\* (base 0x0740 with [0x67, 0x98] gives [0x0D, 0x07, 0x40, 0x67, 0x98]).
C18_WriteRegistersBytes ==
    Made("WriteRegisters") =>
        LET N == call.args[1]
            R == call.args[2]
            d == call.args[3]
        IN  /\ Len(d) = N - 3
            /\ Len(cmd.tx_buf) = N
            /\ cmd.tx_buf = << 13, AddressHigh(R), AddressLow(R) >> \o d

\* the two sync word registers written at once, as in the doc example
C18_SyncWord6798 ==
    /\ Made("WriteRegisters")
    /\ call.args[2] = "LoraSyncWordMsb"
    /\ call.args[3] = << 103, 152 >>
    /\ cmd.tx_buf = << 13, 7, 64, 103, 152 >>

\* C19: a read of M registers starting at register type R has capacity
\* N = M + 4: ReadRegisters::<N>::new::<R>() gives tx_buf [0x1D, high byte
\* of R's address, low byte] followed by zero bytes only, M + 4 bytes in
\* all; rx_buf has M + 4 bytes, a transfer fills all of them, and the M
\* register values are its last M bytes, rx_buf[4..N].
C19_ReadRegistersBytes ==
    (Made("ReadRegisters") /\ call.args[1] >= 4) =>
        LET M == call.args[1] - 4
            R == call.args[2]
        IN  /\ cmd.tx_buf = << 29, AddressHigh(R), AddressLow(R) >> \o ZeroArray(M + 1)
            /\ Len(cmd.tx_buf) = M + 4
            /\ Len(cmd.rx_buf) = M + 4
            /\ Len(SubSeq(cmd.rx_buf, 4 + 1, Len(cmd.rx_buf))) = M
            /\ DescriptorTaken => desc.transfer_length = M + 4

\* two registers read from LoraSyncWordMsb on, as in the doc example, the
\* reply holding two bytes in the last two places
C19_TwoRegistersRead ==
    /\ Made("ReadRegisters")
    /\ call.args = << 6, "LoraSyncWordMsb" >>
    /\ cmd.tx_buf = << 29, 7, 64, 0, 0, 0 >>
    /\ transfers = 1
    /\ cmd.rx_buf = << 0, 0, 0, 0, 100, 255 >>

\* C20: for every offset byte and every payload of N - 2 bytes,
\* WriteBuffer::<N>::new(offset, data) gives tx_buf [0x0E, offset] followed
\* by the payload bytes in their order and nothing else: tx_buf has N
\* bytes.
C20_WriteBufferBytes ==
    Made("WriteBuffer") =>
        LET N == call.args[1]
            offset == call.args[2]
            d == call.args[3]
        IN  /\ Len(d) = N - 2
            /\ Len(cmd.tx_buf) = N
            /\ cmd.tx_buf = << 14, offset >> \o d

\* the WriteBuffer<7> of src/lib.rs, its descriptor taken
C20_WriteBufferOfQueue ==
    /\ Made("WriteBuffer")
    /\ call.args[2] = 0
    /\ call.args[3] = << 2, 4, 7, 9, 3 >>
    /\ cmd.tx_buf = << 14, 0, 2, 4, 7, 9, 3 >>
    /\ DescriptorTaken

\* C21: for every offset byte, ReadBuffer::<N>::new(offset) gives tx_buf
\* [0x1E, offset] followed by N - 2 zero bytes, also after transfers; for
\* a capacity N = data length + 3, data() returns the N - 3 bytes
\* rx_buf[3], .., rx_buf[N - 1] in order, whatever rx_buf[0..3] hold.
C21_ReadBufferBytes ==
    Made("ReadBuffer") =>
        LET N == call.args[1]
            offset == call.args[2]
        IN  /\ cmd.tx_buf = << 30, offset >> \o ZeroArray(N - 2)
            /\ (result.op = "data" /\ N >= 3) =>
                   /\ ~result.panic
                   /\ Len(result.val) = N - 3
                   /\ \A i \in 0..(N - 4) : Idx(result.val, i) = Idx(cmd.rx_buf, 3 + i)

\* a ReadBuffer<6> whose reply holds two bytes from rx_buf[3] on, read by
\* data()
C21_DataOfSix ==
    /\ Made("ReadBuffer")
    /\ call.args = << 6, 16 >>
    /\ cmd.tx_buf = << 30, 16, 0, 0, 0, 0 >>
    /\ cmd.rx_buf = << 0, 0, 0, 100, 255, 0 >>
    /\ result = Returned("data", << 100, 255, 0 >>)

(***************************************************************************)
(* The queue of descriptors.                                               *)
(***************************************************************************)
\* the entry, read through tx_buf_ptr for transfer_length bytes, gives the
\* tx_buf its command had when the descriptor was taken and has now
ReadsItsCommand(e) ==
    /\ Designates(e)
    /\ e.d.transfer_length = Len(e.tx_buf)
    /\ SubSeq(Behind(e.d.tx_buf_ptr), 1, e.d.transfer_length) = e.tx_buf
    /\ places[PlaceOf(e.id)].c.tx_buf = e.tx_buf

\* C22: descriptors of distinct command values are queued in any order and
\* dequeued first in first out; every queued descriptor, and the one the
\* transport executed last, read through tx_buf_ptr for transfer_length
\* bytes gives the tx_buf of the command it was taken from, whatever else
\* is queued or was executed.
C22_QueuedDescriptors ==
    /\ [](/\ \A i \in 1..Len(queue) : ReadsItsCommand(queue[i])
          /\ wire.made => (wire.tx = wire.e.tx_buf /\ ReadsItsCommand(wire.e)))
    /\ [][queue' # queue =>
              \/ queue' # << >> /\ queue = SubSeq(queue', 1, Len(queue') - 1)
              \/ queue # << >> /\ queue' = Tail(queue)
                   /\ wire'.made /\ wire'.e = Head(queue)]_vars

\* the three descriptors of test_queue executed, the WriteBuffer last
C22_ThreeExecuted ==
    /\ transfers = 3
    /\ queue = << >>
    /\ wire.made
    /\ wire.tx = << 14, 0, 2, 4, 7, 9, 3 >>
    /\ places["p1"].c.tx_buf = << 132, 4 >> /\ places["p1"].c.rx_buf # << 0, 0 >>
    /\ places["p2"].c.tx_buf = << 128, 0 >> /\ places["p2"].c.rx_buf # << 0, 0 >>

(***************************************************************************)
(* What changes the buffers.                                               *)
(***************************************************************************)
\* C23: after construction no step changes tx_buf; a step that is not a
\* transfer (descriptor() or a typed accessor) changes neither tx_buf nor
\* rx_buf; rx_buf changes only in a transfer, through the descriptor's
\* rx_buf_ptr.
C23_BuffersChangeOnlyByTransfer ==
    /\ [][cmd'.tx_buf = cmd.tx_buf]_vars
    /\ [][transfers' = transfers => cmd' = cmd]_vars
    /\ [][cmd'.rx_buf # cmd.rx_buf =>
              /\ transfers' = transfers + 1
              /\ desc.rx_buf_ptr = "rx_buf"
              /\ desc' = desc]_vars

\* a GetIrqStatus whose descriptor was taken and executed and whose
\* irq_status() was read
C23_IrqStatusReadAfterTransfer ==
    /\ cmd.type = "GetIrqStatus"
    /\ DescriptorTaken
    /\ transfers = 1
    /\ cmd.tx_buf = << 18, 0, 0, 0 >>
    /\ cmd.rx_buf # ZeroArray(4)
    /\ result.op = "irq_status"

(***************************************************************************)
(* Small capacities.                                                       *)
(***************************************************************************)
\* the capacity of the call is too small for the header of the command
TooSmall ==
    \/ call.fn \in {"WriteRegisters", "ReadRegisters", "ReadBuffer"} /\ call.args[1] < 3
    \/ call.fn = "WriteBuffer" /\ call.args[1] < 2

\* C24: a constructor call with a capacity too small for the header
\* (WriteRegisters, ReadRegisters and ReadBuffer below 3, WriteBuffer below
\* 2) is rejected when the program is built, and no constructor call with
\* a capacity panics at run time.
C24_SmallCapacityRejected ==
    result.op = "new" =>
        /\ TooSmall => result.val = "compile error"
        /\ result.val # "panic"

(***************************************************************************)
(* Descriptors and moves.                                                  *)
(***************************************************************************)
\* the descriptors taken and not yet forgotten: those queued and the one of
\* the last transfer
Taken == {queue[i] : i \in 1..Len(queue)} \cup (IF wire.made THEN {wire.e} ELSE {})
\* the command of the entry has been moved since the descriptor was taken
MovedSince(e) == \E p \in Places : Live(p) /\ places[p].id = e.id /\ places[p].moves > e.moves

\* C25: while the command a descriptor was taken from has not been moved,
\* the transfer of the descriptor sends the command's tx_buf and the bytes
\* stored through rx_buf_ptr are the bytes the accessors of the command
\* decode; once the command has been moved the descriptor taken before does
\* not designate its buffers (after one move its pointers differ from those
\* of the command), and a descriptor fetched anew does.
C25_DescriptorDesignates ==
    /\ wire.made /\ Designates(wire.e) =>
           LET c == places[wire.e.d.rx_buf_ptr.place].c
           IN  /\ wire.tx = c.tx_buf
               /\ c.rx_buf = wire.reply
               /\ result.op = "register" /\ result.id = wire.e.id =>
                      result.val = ReadRegister_register([c EXCEPT !.rx_buf = wire.reply])
               /\ result.op = "status" /\ result.id = wire.e.id =>
                      result.val = GetStatus_status([c EXCEPT !.rx_buf = wire.reply])
    /\ \A e \in Taken :
           MovedSince(e) =>
               LET q == PlaceOf(e.id)
               IN  /\ ~Designates(e)
                   /\ Designates(Entry(q))
                   /\ places[q].moves = e.moves + 1 =>
                          /\ e.d.tx_buf_ptr # descriptor_at(q).tx_buf_ptr
                          /\ e.d.rx_buf_ptr # descriptor_at(q).rx_buf_ptr
\* C25 witness: a descriptor taken before the move of a ReadRegister was
\* transferred after it, and register() of the moved command does not
\* decode the reply
C25_StaleDescriptorTransferred ==
    /\ wire.made
    /\ MovedSince(wire.e)
    /\ result.op = "register"
    /\ result.id = wire.e.id
    /\ result.val # ReadRegister_register([places[PlaceOf(wire.e.id)].c EXCEPT !.rx_buf = wire.reply])

(***************************************************************************)
(* The receive buffer before any reply.                                    *)
(***************************************************************************)
\* C26: before any transport write every byte of rx_buf is zero, and a
\* typed accessor returns the decode of zero bytes: packet_type Gfsk,
\* rssi_inst 0, irq_status the Irq with no flag set, and so for the others.
C26_FreshRxBufIsZero ==
    transfers = 0 =>
        /\ \A i \in 1..Len(cmd.rx_buf) : cmd.rx_buf[i] = 0
        /\ result.op = "packet_type" => result.val = "Gfsk"
        /\ result.op \in {"rssi_inst", "rssi_pkt", "signal_rssi_pkt"} =>
               result.val.value = 0 /\ ~result.val.overflow
        /\ result.op = "irq_status" =>
               /\ bitfield_eq(result.val, bitfield_new)
               /\ \A name \in FieldNames(Irq) : ~field_get("Irq", result.val, name)
        /\ result.op = "op_error" => bitfield_eq(result.val, bitfield_new)
        /\ result.op = "status" => bitfield_eq(result.val, bitfield_new)
        /\ result.op \in {"nb_pkt_received", "nb_pkt_crc_error", "nb_pkt_header_err",
                          "payload_length_rx", "rx_start_buffer_pointer",
                          "snr_pkt"} => result.val = 0
        /\ result.op = "register" => result.val = from_bits(cmd.R, 0)
        /\ result.op = "data" /\ ~result.panic => result.val = ZeroArray(cmd.N - 3)
\* C26 witness: packet_type() of a GetPacketType nothing was transferred to
C26_PacketTypeBeforeReply ==
    /\ transfers = 0
    /\ cmd.type = "GetPacketType"
    /\ result.op = "packet_type"
    /\ result.val = "Gfsk"

(***************************************************************************)
(* 16-bit receive fields.                                                  *)
(***************************************************************************)
\* bit k of an integer
BitOf(x, k) == (x \div (2 ^ k)) % 2 = 1
\* 256 * rx_buf[i] + rx_buf[i + 1]
Word(c, i) == 256 * Idx(c.rx_buf, i) + Idx(c.rx_buf, i + 1)
\* how many flags are declared before the flag `name`, padding not counted
RECURSIVE FlagsBefore(_, _)
FlagsBefore(L, k) ==
    IF k = 1 THEN 0
    ELSE FlagsBefore(L, k - 1) + (IF L.fields[k - 1].name = "__" THEN 0 ELSE 1)
FlagNumber(L, name) == FlagsBefore(L, FieldIndex(L, name))
\* the bits of the flags of Irq and OpError
IrqBit ==
    [ tx_done |-> 0, rx_done |-> 1, preamble_detected |-> 2, sync_word_valid |-> 3,
      header_valid |-> 4, header_err |-> 5, crc_err |-> 6, cad_done |-> 7,
      cad_detected |-> 8, timeout |-> 9, lr_fhss_hop |-> 14 ]
OpErrorBit ==
    [ rc64k_calib_err |-> 0, rc13m_calib_err |-> 1, pll_calib_err |-> 2,
      adc_calib_err |-> 3, img_calib_err |-> 4, xosc_start_err |-> 5,
      pll_lock_err |-> 6, pa_ramp_err |-> 8 ]
\* the command with other bytes in rx_buf[0] and rx_buf[1]
OtherStatus(c) == {[c EXCEPT !.rx_buf[1] = b0, !.rx_buf[2] = b1] : b0 \in {0, 255}, b1 \in {0, 255}}

\* the counters of GetStatsLora are the big-endian words at rx_buf[2],
\* rx_buf[4], rx_buf[6]; irq_status and op_error hold the word at rx_buf[2];
\* none depends on rx_buf[0] or rx_buf[1]
WordsBigEndian ==
    /\ result.op = "nb_pkt_received" =>
           /\ result.val = Word(cmd, 2)
           /\ \A c \in OtherStatus(cmd) : GetStatsLora_nb_pkt_received(c) = result.val
    /\ result.op = "nb_pkt_crc_error" =>
           /\ result.val = Word(cmd, 4)
           /\ \A c \in OtherStatus(cmd) : GetStatsLora_nb_pkt_crc_error(c) = result.val
    /\ result.op = "nb_pkt_header_err" =>
           /\ result.val = Word(cmd, 6)
           /\ \A c \in OtherStatus(cmd) : GetStatsLora_nb_pkt_header_err(c) = result.val
    /\ result.op = "irq_status" =>
           /\ bitfield_into_bits(result.val) = Word(cmd, 2)
           /\ \A c \in OtherStatus(cmd) : GetIrqStatus_irq_status(c) = result.val
    /\ result.op = "op_error" =>
           /\ bitfield_into_bits(result.val) = Word(cmd, 2)
           /\ \A c \in OtherStatus(cmd) : GetDeviceErrors_op_error(c) = result.val

\* C27 (as stated): the 16-bit receive fields are the big-endian words of
\* their own two bytes, and the k-th flag of Irq and of OpError, counted
\* from tx_done and rc64k_calib_err as 0, is bit k of the word at rx_buf[2].
C27_FlagKIsBitK ==
    /\ WordsBigEndian
    /\ result.op = "irq_status" =>
           \A name \in FieldNames(Irq) :
               field_get("Irq", result.val, name) = BitOf(Word(cmd, 2), FlagNumber(Irq, name))
    /\ result.op = "op_error" =>
           \A name \in FieldNames(OpError) :
               field_get("OpError", result.val, name)
                   = BitOf(Word(cmd, 2), FlagNumber(OpError, name))

\* C27 (amended): the 16-bit receive fields are the big-endian words of
\* their own two bytes; the flags of Irq from tx_done to timeout are bits 0
\* to 9 of the word at rx_buf[2] and lr_fhss_hop is bit 14; the flags of
\* OpError from rc64k_calib_err to pll_lock_err are bits 0 to 6 and
\* pa_ramp_err is bit 8; rx_buf[0] and rx_buf[1] never influence the result.
C27_FlagsAtDeclaredBits ==
    /\ WordsBigEndian
    /\ result.op = "irq_status" =>
           /\ DOMAIN IrqBit = FieldNames(Irq)
           /\ \A name \in FieldNames(Irq) :
                  field_get("Irq", result.val, name) = BitOf(Word(cmd, 2), IrqBit[name])
    /\ result.op = "op_error" =>
           /\ DOMAIN OpErrorBit = FieldNames(OpError)
           /\ \A name \in FieldNames(OpError) :
                  field_get("OpError", result.val, name)
                      = BitOf(Word(cmd, 2), OpErrorBit[name])
\* C27 witness: irq_status() of a reply with 0x40 in rx_buf[2] has
\* lr_fhss_hop set and no other flag
C27_LrFhssHopFromBit14 ==
    /\ result.op = "irq_status"
    /\ Idx(cmd.rx_buf, 2) = 64
    /\ field_get("Irq", result.val, "lr_fhss_hop")
    /\ ~field_get("Irq", result.val, "timeout")

(***************************************************************************)
(* The status byte.                                                        *)
(***************************************************************************)
\* the bits hi..lo of a byte, as a number
BitsOf(b, hi, lo) == (b \div (2 ^ lo)) % (2 ^ (hi - lo + 1))
\* the bytes that differ from b in bit 7, in bit 0, or in both
SameMiddleBits(b) == {x \in Byte : BitsOf(x, 6, 1) = BitsOf(b, 6, 1)}

\* C28: status() of GetStatus decodes chip_mode from bits 6..4 and
\* command_status from bits 3..1 of rx_buf[1]; bits 7 and 0 of the byte and
\* the other bytes of rx_buf change neither; 0x64 gives Tx and
\* DataIsAvailableToHost.
C28_StatusFromMiddleBits ==
    result.op = "status" =>
        LET b == Idx(cmd.rx_buf, 1)
        IN  /\ field_get("Status", result.val, "chip_mode")
                   = transmute(ChipMode, BitsOf(b, 6, 4))
            /\ field_get("Status", result.val, "command_status")
                   = transmute(CommandStatus, BitsOf(b, 3, 1))
            /\ \A x \in SameMiddleBits(b) :
                   Fields("Status", GetStatus_status([cmd EXCEPT !.rx_buf[2] = x]))
                       = Fields("Status", result.val)
            /\ \A x \in {0, 255} :
                   Fields("Status", GetStatus_status([cmd EXCEPT !.rx_buf[1] = x]))
                       = Fields("Status", result.val)
            /\ b = 100 =>
                   Fields("Status", result.val)
                       = [chip_mode |-> "Tx", command_status |-> "DataIsAvailableToHost"]
\* C28 witness: status() of a reply whose second byte is 0x64
C28_Status0x64 ==
    /\ cmd.type = "GetStatus"
    /\ result.op = "status"
    /\ Idx(cmd.rx_buf, 1) = 100
    /\ Idx(cmd.rx_buf, 0) # 100
    /\ field_get("Status", result.val, "chip_mode") = "Tx"

(***************************************************************************)
(* Single and batched register commands.                                   *)
(***************************************************************************)
\* C29: WriteRegister::new(r) has the tx_buf and the transfer length of
\* WriteRegisters::<4>::new::<R>([r.bits()]), and ReadRegister::<R>::new()
\* those of ReadRegisters::<5>::new::<R>().
C29_SingleAgreesWithBatched ==
    /\ Made("WriteRegister") =>
           LET r == call.args[1]
               batched == WriteRegisters_new(4, r.reg, << bits(r) >>)
           IN  /\ cmd.tx_buf = batched.tx_buf
               /\ transfer_length(cmd) = transfer_length(batched)
               /\ desc # NoDescriptor => desc = descriptor(batched)
    /\ Made("ReadRegister") =>
           LET batched == ReadRegisters_new(5, call.args[1])
           IN  /\ cmd.tx_buf = batched.tx_buf
               /\ transfer_length(cmd) = transfer_length(batched)
               /\ desc # NoDescriptor => desc = descriptor(batched)
\* C29 witness: the descriptor of ReadRegister::<RxGain>::new() has been
\* fetched and can be transferred
C29_ReadRxGainDescribed ==
    /\ Made("ReadRegister")
    /\ call.args[1] = "RxGain"
    /\ desc # NoDescriptor
    /\ desc.transfer_length = 5
    /\ ENABLED TransferSampled

(***************************************************************************)
(* Opcodes.                                                                *)
(***************************************************************************)
\* the single and the batched form of the same operation
SharedOpcodes ==
    { {"WriteRegister", "WriteRegisters"}, {"ReadRegister", "ReadRegisters"} }

\* C30: a command type other than the type of the command has another
\* OPCODE, and another than the byte the command starts with, unless the two
\* types are WriteRegister and WriteRegisters (both 0x0D) or ReadRegister
\* and ReadRegisters (both 0x1D).
C30_OpcodesIdentifyCommands ==
    /\ cmd.type \in CommandTypes =>
           \A t \in CommandTypes \ {cmd.type} :
               (OPCODE[t] = OPCODE[cmd.type] \/ OPCODE[t] = Idx(cmd.tx_buf, 0)) =>
                   {t, cmd.type} \in SharedOpcodes
    /\ OPCODE.WriteRegister = 13 /\ OPCODE.WriteRegisters = 13
    /\ OPCODE.ReadRegister = 29 /\ OPCODE.ReadRegisters = 29
\* C30 witness: a ResetStats, whose opcode is 0x00, has been described; and
\* every command type has a command
C30_ResetStatsDescribed ==
    /\ cmd.type = "ResetStats"
    /\ Idx(cmd.tx_buf, 0) = 0
    /\ desc = descriptor(cmd)
    /\ {c.type : c \in Commands} = CommandTypes

====
